---- MODULE Spec2Model ----
(***************************************************************************)
(* Model of the entities service: the document-store backends              *)
(* (dataspaces_entities and entities_service MongoDBBackend) and the       *)
(* upload command of the command-line client.                              *)
(*                                                                         *)
(* Strings are sequences of one-character strings, so that the regular     *)
(* expressions of the source are matched character by character.           *)
(***************************************************************************)
EXTENDS Integers, Sequences, FiniteSets, TLC

(***************************************************************************)
(* Bounds of the model.                                                    *)
(***************************************************************************)
\* number of documents the store hands out an _id for
MaxInserts == 3
\* longest batch given to one create() call
MaxBatch == 2
\* most files given to one upload run
MaxFiles == 2
\* longest version string given to the functions of the models package
MaxVersionLen == 5

(***************************************************************************)
(* Strings.                                                                *)
(***************************************************************************)
Digits == {"0", "1", "2", "3", "4", "5", "6", "7", "8", "9"}

\* str.isnumeric() / \d+ : a non-empty run of digits
IsDigits(s) == Len(s) > 0 /\ \A i \in 1..Len(s) : s[i] \in Digits

\* positions of character c in s
Positions(s, c) == {i \in 1..Len(s) : s[i] = c}

Max(S) == CHOOSE m \in S : \A x \in S : x <= m

\* str.split(sep)
RECURSIVE Split(_, _)
Split(s, sep) ==
    IF Positions(s, sep) = {} THEN <<s>>
    ELSE LET i == CHOOSE k \in Positions(s, sep) : \A j \in Positions(s, sep) : k <= j
         IN  <<SubSeq(s, 1, i - 1)>> \o Split(SubSeq(s, i + 1, Len(s)), sep)

\* the version group of URI_REGEX: \d(?:\.\d+){0,2}
MatchUriVersion(v) ==
    LET parts == Split(v, ".")
    IN  /\ Len(parts) \in 1..3
        /\ Len(parts[1]) = 1
        /\ \A i \in 1..Len(parts) : IsDigits(parts[i])

\* the namespace group of URI_REGEX: https?://.+
Http == <<"h", "t", "t", "p", ":", "/", "/">>
Https == <<"h", "t", "t", "p", "s", ":", "/", "/">>
MatchUriNamespace(n) ==
    \/ Len(n) > Len(Http) /\ SubSeq(n, 1, Len(Http)) = Http
    \/ Len(n) > Len(Https) /\ SubSeq(n, 1, Len(Https)) = Https

\* the name group of URI_REGEX: [^/#?]+
MatchUriName(n) == Len(n) > 0 /\ \A i \in 1..Len(n) : n[i] \notin {"/", "#", "?"}

NoMatch == [matched |-> FALSE]

\* URI_REGEX.match(uri): name and version hold no "/", so the name is what
\* follows the last "/" and the version what lies between the last two.
UriRegexMatch(uri) ==
    LET sl == Positions(uri, "/")
    IN  IF Cardinality(sl) < 2 THEN NoMatch
        ELSE LET j == Max(sl)
                 i == Max(sl \ {j})
                 ns == SubSeq(uri, 1, i - 1)
                 ver == SubSeq(uri, i + 1, j - 1)
                 nm == SubSeq(uri, j + 1, Len(uri))
             IN  IF MatchUriNamespace(ns) /\ MatchUriVersion(ver) /\ MatchUriName(nm)
                 THEN [matched |-> TRUE, namespace |-> ns, version |-> ver, name |-> nm]
                 ELSE NoMatch

\* f"{namespace}/{version}/{name}"
BuildUri(ns, ver, nm) == ns \o <<"/">> \o ver \o <<"/">> \o nm

\* SOFT7IdentityURI(identity) succeeds
ValidIdentity(identity) == UriRegexMatch(identity).matched

(***************************************************************************)
(* The values the operations are called with.                              *)
(***************************************************************************)
\* the service's base URL, short for http://onto-ns.com/meta
BaseNs == Http \o <<"o", "/", "m">>
V01 == <<"0", ".", "1">>
IdA == BuildUri(BaseNs, V01, <<"A">>)
IdB == BuildUri(BaseNs, V01, <<"B">>)
\* "not a uri"
BadId == <<"n", "o", "t", " ", "a", " ", "u", "r", "i">>
Identities == {IdA, IdB, BadId}
GoodIdentities == {i \in Identities : ValidIdentity(i)}

(***************************************************************************)
(* Documents.  A document is a function from the field names it carries to *)
(* their values (model_dump(exclude_unset=True) leaves unset fields out).  *)
(***************************************************************************)
\* properties as a client may send them: property name -> its metadata
PropsPlain == "p" :> ("type" :> "int")
PropsRef == "p" :> ("type" :> "ref" @@ "$ref" :> "R")
PropsSets == {PropsPlain, PropsRef}

\* the reference key as it is dumped: field name `ref`, not the alias `$ref`
DumpKey(k) == IF k = "$ref" THEN "ref" ELSE k

DumpProperty(pv) ==
    [k \in {DumpKey(x) : x \in DOMAIN pv} |->
        pv[CHOOSE x \in DOMAIN pv : DumpKey(x) = k]]

DumpProperties(props) == [n \in DOMAIN props |-> DumpProperty(props[n])]

\* entities given to the dataspaces_entities backend
DSEntities ==
    {("identity" :> i @@ "properties" :> PropsPlain) : i \in Identities}
    \cup {"identity" :> IdA @@ "properties" :> PropsRef @@ "dimensions" :> ("n" :> "len"),
          "identity" :> IdA @@ "properties" :> PropsPlain @@ "description" :> <<"d">>,
          "identity" :> IdA}

\* get_entity(entity) validates
DSValid(e) ==
    /\ "identity" \in DOMAIN e
    /\ ValidIdentity(e["identity"])
    /\ "properties" \in DOMAIN e

\* MongoDBBackend._prepare_entity: entity.model_dump(mode="json", exclude_unset=True)
PrepareEntity(e) ==
    [f \in DOMAIN e |-> IF f = "properties" THEN DumpProperties(e[f]) ELSE e[f]]

\* utils.get_identity for a dumped entity
get_identity(e) == IF "uri" \in DOMAIN e THEN e["uri"] ELSE e["identity"]

\* a projection that keeps the storage-internal _id
ProjectAll(doc) == doc

\* projection={"_id": False}
Project(doc) == [f \in DOMAIN doc \ {"_id"} |-> doc[f]]

(***************************************************************************)
(* The collection and its indices.                                         *)
(***************************************************************************)
VARIABLES
    collection,   \* the documents of the MongoDB collection, each with its _id
    indices,      \* index_information(): index name -> [unique, key]
    nextId,       \* the next _id the driver hands out
    started,      \* the application lifespan has initialized the backend
    procs,        \* the request handlers that run
    pc,           \* where each handler is: idle, or inside create()
    local,        \* the local variables of create(): batch, position, ids, store at call
    result,       \* what each handler's last finished call returned or raised
    created,      \* identity -> the entity of its last successful create(), until
                  \* an update or delete of that identity
    files,        \* upload: the entity files, in the order the loop visits them
    fail_fast,    \* upload: the --fail-fast option
    upc,          \* upload: off, login, loop, finish or done
    upos,         \* upload: position of the loop in files
    successes,    \* upload: (file, dumped entity) of each file to be uploaded
    skipped,      \* upload: the files skipped
    failed,       \* upload: the files that failed
    informed,     \* upload: informed_file_formats
    requests,     \* upload: the HTTP requests sent, in order
    messages,     \* upload: the errors printed, each with the file it is about
    entered,      \* upload: the versions typed at the prompt, each with its file
    exitCode,     \* upload: none while running, then 0 or 1
    answers,      \* upload: how the registry answered the GET for a file, and
                  \* whether the operator agreed to a new version
    called,       \* a function of the models package that was called, or none
    arg,          \* the argument it was called with
    out,          \* what it returned or raised
    instances     \* the backend instances: _is_closed, and the close calls made

backendVars == <<collection, indices, nextId, started, procs, pc, local, result, created>>
uploadVars == <<files, fail_fast, upc, upos, successes, skipped, failed, informed,
                requests, messages, entered, exitCode, answers>>
callVars == <<called, arg, out>>
lifeVars == <<instances>>
vars == <<backendVars, uploadVars, callVars, lifeVars>>

\* the index key of a document: a missing field is indexed as null
KeyOf(doc, key) ==
    [i \in 1..Len(key) |-> IF key[i] \in DOMAIN doc THEN <<doc[key[i]]>> ELSE <<>>]

\* a store that enforces no uniqueness
DuplicateKeyOff(coll, doc) == FALSE

\* the store refuses doc: a unique index holds its key already (error code 11000).
DuplicateKey(coll, doc) ==
    \E n \in DOMAIN indices :
        /\ indices[n].unique
        /\ \E d \in coll : KeyOf(d, indices[n].key) = KeyOf(doc, indices[n].key)

\* find(query) in natural order; find_one takes the first
Matching(coll, field, values) ==
    {d \in coll : field \in DOMAIN d /\ d[field] \in values}

FindOne(S) == IF S = {} THEN {} ELSE {CHOOSE d \in S : \A x \in S : d["_id"] <= x["_id"]}

\* update_one(filter, {"$set": entity}) on the matched document
SetFields(doc, entity) ==
    [f \in DOMAIN doc \cup DOMAIN entity |->
        IF f \in DOMAIN entity THEN entity[f] ELSE doc[f]]

IdleLocal == [given |-> <<>>, batch |-> <<>>, k |-> 0, ids |-> {}, pre |-> {}]
\* a finished call: the operation, how it ended, the identities it was about or
\* that its error names, what it returned, and the entities it was given
NoResult == [op |-> "none", status |-> "none", ids |-> {}, ret |-> {}, given |-> <<>>]
Result(op, status, ids, ret, given) ==
    [op |-> op, status |-> status, ids |-> ids, ret |-> ret, given |-> given]

\* create_index(["identity"], name="IDENTITY") without unique=True
IdentityIndexNonUnique == [unique |-> FALSE, key |-> <<"identity">>]

\* create_index(["identity"], unique=True, name="IDENTITY")
IdentityIndex == [unique |-> TRUE, key |-> <<"identity">>]
IdIndex == [unique |-> TRUE, key |-> <<"_id">>]

\* a fresh collection, the backend constructed and not yet initialized
InitStore ==
    /\ collection = {}
    /\ indices = ("_id_" :> IdIndex)
    /\ nextId = 1
    /\ started = FALSE

\* no upload command is running
NoUpload ==
    /\ files = <<>>
    /\ fail_fast = FALSE
    /\ upc = "off"
    /\ upos = 0
    /\ successes = <<>>
    /\ skipped = <<>>
    /\ failed = <<>>
    /\ informed = {}
    /\ requests = <<>>
    /\ messages = <<>>
    /\ entered = <<>>
    /\ exitCode = "none"
    /\ answers = <<>>

\* no function of the models package has been called
NoCall ==
    /\ called = "none"
    /\ arg = <<>>
    /\ out = [done |-> FALSE]

\* the backend classes and drivers an instance can be built with: the
\* dataspaces_entities MongoDBBackend, and the entities_service MongoDBBackend
\* on either value of its mongo_driver setting
BackendKinds == {"dataspaces", "pymongo", "mongomock"}

\* Backend.__init__: self._is_closed = False; no close call made yet
NewInstance == [is_closed |-> FALSE, closes |-> 0, raised |-> "none", alive |-> TRUE]

AllOpen == instances = [b \in BackendKinds |-> NewInstance]

Init ==
    /\ InitStore
    /\ NoUpload
    /\ NoCall
    /\ AllOpen
    /\ procs = {1}
    /\ pc = [p \in procs |-> "idle"]
    /\ local = [p \in procs |-> IdleLocal]
    /\ result = [p \in procs |-> NoResult]
    /\ created = <<>>

(***************************************************************************)
(* dataspaces_entities MongoDBBackend.                                     *)
(***************************************************************************)
\* an initialize that drops whatever index is named IDENTITY and builds the
\* expected one; used only to compare with Initialized
InitializedAnew(index_information) ==
    [n \in DOMAIN index_information \cup {"IDENTITY"} |->
        IF n = "IDENTITY" THEN IdentityIndex ELSE index_information[n]]

\* the indices of the collection after initialize(): an index named IDENTITY
\* is left as it is (a warning is logged when it is not unique or not on
\* identity), and created when there is none
Initialized(index_information) ==
    IF "IDENTITY" \in DOMAIN index_information
    THEN index_information
    ELSE index_information @@ ("IDENTITY" :> IdentityIndex)

\* MongoDBBackend.initialize, called by the lifespan before requests are served
initialize ==
    /\ pc = [p \in procs |-> "idle"]
    /\ indices' = Initialized(indices)
    /\ started' = TRUE
    /\ UNCHANGED <<collection, nextId, procs, pc, local, result, created>>
    /\ UNCHANGED uploadVars
    /\ UNCHANGED callVars
    /\ UNCHANGED lifeVars

\* the batches create() is called with
Batches == UNION {[1..n -> DSEntities] : n \in 1..MaxBatch}

\* the documents that create() calls in progress still have to insert
Pending == [p \in procs |-> IF pc[p] = "insert" THEN Len(local[p].batch) - local[p].k + 1 ELSE 0]

RECURSIVE SumOver(_, _)
SumOver(f, S) ==
    IF S = {} THEN 0
    ELSE LET x == CHOOSE y \in S : TRUE IN f[x] + SumOver(f, S \ {x})

\* MongoDBBackend.create, lines 192-195: prepare the entities, start insert_many
createCall(p) ==
    /\ started /\ pc[p] = "idle"
    /\ \E batch \in Batches :
        /\ nextId - 1 + SumOver(Pending, procs) + Len(batch) <= MaxInserts
        /\ IF \E i \in 1..Len(batch) : ~DSValid(batch[i])
           THEN /\ result' = [result EXCEPT ![p] = Result("create", "ValidationError", {}, {}, batch)]
                /\ UNCHANGED <<pc, local>>
           ELSE /\ local' = [local EXCEPT ![p] =
                       [given |-> batch,
                        batch |-> [i \in 1..Len(batch) |-> PrepareEntity(batch[i])],
                        k |-> 1, ids |-> {}, pre |-> collection]]
                /\ pc' = [pc EXCEPT ![p] = "insert"]
                /\ UNCHANGED result
    /\ UNCHANGED <<collection, indices, nextId, started, procs, created>>
    /\ UNCHANGED uploadVars
    /\ UNCHANGED callVars
    /\ UNCHANGED lifeVars

\* insert_many(entities), ordered: the store inserts the documents one by one in
\* the order given and aborts the remaining inserts at the first error
insertStep(p) ==
    /\ pc[p] = "insert"
    /\ LET doc == local[p].batch[local[p].k] @@ ("_id" :> nextId)
       IN  IF DuplicateKey(collection, doc)
           THEN /\ pc' = [pc EXCEPT ![p] = "duplicate"]
                /\ UNCHANGED <<collection, nextId, local>>
           ELSE /\ collection' = collection \cup {doc}
                /\ nextId' = nextId + 1
                /\ local' = [local EXCEPT ![p].k = @ + 1, ![p].ids = @ \cup {nextId}]
                /\ pc' = [pc EXCEPT ![p] =
                       IF local[p].k = Len(local[p].batch) THEN "inserted" ELSE "insert"]
    /\ UNCHANGED <<indices, started, procs, result, created>>
    /\ UNCHANGED uploadVars
    /\ UNCHANGED callVars
    /\ UNCHANGED lifeVars

\* the error code of a duplicate key in a writeError
DuplicateKeyCode == 11000

\* a create that takes every bulk-write failure for a duplicate; used only to
\* compare with CreateRaises
CreateRaisesExistsAlways(failure) ==
    IF failure.exc \in {"DuplicateKeyError", "BulkWriteError"}
    THEN "EntityExists"
    ELSE failure.exc

\* MongoDBBackend.create, lines 196-200: what create() raises when
\* insert_many raised failure: a DuplicateKeyError, and a BulkWriteError one
\* of whose writeErrors has the duplicate key code, become EntityExists;
\* every other exception goes on as it is
CreateRaises(failure) ==
    IF \/ failure.exc = "DuplicateKeyError"
       \/ /\ failure.exc = "BulkWriteError"
          /\ \E i \in 1..Len(failure.codes) : failure.codes[i] = DuplicateKeyCode
    THEN "EntityExists"
    ELSE failure.exc

\* the exceptions the create route takes for a failed write
MongoDBBackendWriteAccessError ==
    {"MongoDBBackendError", "BackendWriteAccessError", "WriteConcernError",
     "BulkWriteError", "WriteError", "OperationFailure"}

\* create_entities, lines 170-177: an exception of the backend's
\* write_access_exception becomes WriteError (502); any other goes on
RouteRaises(exc) ==
    IF exc \in MongoDBBackendWriteAccessError THEN "WriteError" ELSE exc

\* MongoDBBackend.create, lines 196-225: the duplicate key error is turned into
\* EntityExists naming what search(by_identities=entity_ids) finds
createExists(p) ==
    /\ pc[p] = "duplicate"
    /\ LET entity_ids == {get_identity(local[p].batch[i]) : i \in 1..Len(local[p].batch)}
           existing_entities == Matching(collection, "identity", entity_ids)
           existing_entity_ids == {get_identity(d) : d \in existing_entities}
       IN  result' = [result EXCEPT ![p] =
                         Result("create",
                                RouteRaises(CreateRaises([exc |-> "BulkWriteError",
                                                          codes |-> <<DuplicateKeyCode>>])),
                                existing_entity_ids, {}, local[p].given)]
    /\ pc' = [pc EXCEPT ![p] = "idle"]
    /\ local' = [local EXCEPT ![p] = IdleLocal]
    /\ UNCHANGED <<collection, indices, nextId, started, procs, created>>
    /\ UNCHANGED uploadVars
    /\ UNCHANGED callVars
    /\ UNCHANGED lifeVars

\* MongoDBBackend.create, lines 227-230: return the stored form of what was inserted
createReturn(p) ==
    /\ pc[p] = "inserted"
    /\ LET found == Matching(collection, "_id", local[p].ids)
           ret == IF Cardinality(local[p].ids) > 1 THEN found ELSE FindOne(found)
       IN  result' = [result EXCEPT ![p] =
               Result("create", "ok",
                      {get_identity(local[p].batch[i]) : i \in 1..Len(local[p].batch)},
                      {Project(d) : d \in ret}, local[p].given)]
    /\ created' = [i \in DOMAIN created \cup
                            {get_identity(local[p].batch[k]) : k \in 1..Len(local[p].batch)} |->
                       IF \E k \in 1..Len(local[p].batch) : get_identity(local[p].batch[k]) = i
                       THEN local[p].given[CHOOSE k \in 1..Len(local[p].batch) :
                                               get_identity(local[p].batch[k]) = i]
                       ELSE created[i]]
    /\ pc' = [pc EXCEPT ![p] = "idle"]
    /\ local' = [local EXCEPT ![p] = IdleLocal]
    /\ UNCHANGED <<collection, indices, nextId, started, procs>>
    /\ UNCHANGED uploadVars
    /\ UNCHANGED callVars
    /\ UNCHANGED lifeVars

\* MongoDBBackend._single_identity_query and MongoDBBackend.read
read(p) ==
    /\ started /\ pc[p] = "idle"
    /\ \E entity_identity \in Identities :
        result' = [result EXCEPT ![p] =
            IF ~ValidIdentity(entity_identity)
            THEN Result("read", "InvalidEntityError", {entity_identity}, {}, <<>>)
            ELSE Result("read", "ok", {entity_identity},
                        {Project(d) : d \in
                            FindOne(Matching(collection, "identity", {entity_identity}))},
                        <<>>)]
    /\ UNCHANGED <<collection, indices, nextId, started, procs, pc, local, created>>
    /\ UNCHANGED uploadVars
    /\ UNCHANGED callVars
    /\ UNCHANGED lifeVars

\* the fields of a stored document that hold a string; properties and
\* dimensions hold an embedded document
StringFields == {"identity", "description"}

\* the strings a dotted path leads to in a stored document: a string field, or
\* a key of dimensions (name -> description); a key of properties leads to
\* the embedded document of that property, a missing field to nothing
StringsAt(doc, path) ==
    IF path[1] \notin DOMAIN doc THEN {}
    ELSE IF Len(path) = 1
    THEN IF path[1] \in StringFields THEN {doc[path[1]]} ELSE {}
    ELSE IF path[1] = "dimensions" /\ path[2] \in DOMAIN doc[path[1]]
    THEN {doc[path[1]][path[2]]}
    ELSE {}

\* the clause {path: {"$in": values}}
MatchesIn(doc, path, values) == StringsAt(doc, path) \cap values # {}

\* the query built from the filters: {} or {"$or": [...]}, as the paths and
\* values of its clauses
SearchClauses(by_properties, by_dimensions) ==
    (IF by_properties # <<>>
     THEN {<<<<"properties">>, by_properties>>, <<<<"properties", "name">>, by_properties>>}
     ELSE {})
    \cup (IF by_dimensions # <<>>
          THEN {<<<<"dimension">>, by_dimensions>>, <<<<"dimension", "name">>, by_dimensions>>}
          ELSE {})

\* find(query) for the query of search()
Found(coll, by_properties, by_dimensions, by_identities) ==
    IF by_properties = <<>> /\ by_dimensions = <<>> /\ by_identities = {} THEN coll
    ELSE {d \in coll :
            \/ \E c \in SearchClauses(by_properties, by_dimensions) :
                  MatchesIn(d, c[1], {c[2][i] : i \in 1..Len(c[2])})
            \/ by_identities # {} /\ MatchesIn(d, <<"identity">>, by_identities)}

\* MongoDBBackend.search without a raw query
search(p) ==
    /\ started /\ pc[p] = "idle"
    /\ \E by_properties \in {<<>>, <<"p">>}, by_dimensions \in {<<>>, <<"n">>},
          by_identities \in SUBSET Identities :
        result' = [result EXCEPT ![p] =
            IF \E identity \in by_identities : ~ValidIdentity(identity)
            THEN Result("search", "InvalidEntityError", by_identities, {},
                        <<by_properties, by_dimensions>>)
            ELSE Result("search", "ok", by_identities,
                        {Project(d) : d \in
                            Found(collection, by_properties, by_dimensions, by_identities)},
                        <<by_properties, by_dimensions>>)]
    /\ UNCHANGED <<collection, indices, nextId, started, procs, pc, local, created>>
    /\ UNCHANGED uploadVars
    /\ UNCHANGED callVars
    /\ UNCHANGED lifeVars

\* update_one(filter, {"$set": entity}, upsert=True)
UpdateOneUpsert(coll, identity, entity) ==
    LET matched == FindOne(Matching(coll, "identity", {identity}))
        doc == CHOOSE d \in matched : TRUE
    IN  IF matched = {} THEN coll \cup {entity @@ ("_id" :> 0)}
        ELSE (coll \ {doc}) \cup {SetFields(doc, entity)}

\* update_one(filter, {"$set": entity}): the first matching document gets the
\* fields of entity; without a match nothing is written (no upsert)
UpdateOne(coll, identity, entity) ==
    LET matched == FindOne(Matching(coll, "identity", {identity}))
        doc == CHOOSE d \in matched : TRUE
    IN  IF matched = {} THEN coll
        ELSE (coll \ {doc}) \cup {SetFields(doc, entity)}

\* a delete() that validates each identity only when it comes to delete it
DeletedLazily(coll, entity_identities) ==
    Matching(coll, "identity", {i \in entity_identities : ValidIdentity(i)})

\* the documents delete() removes: none unless every identity is well-formed
Deleted(coll, entity_identities) ==
    IF \E i \in entity_identities : ~ValidIdentity(i)
    THEN {}
    ELSE Matching(coll, "identity", entity_identities)

\* MongoDBBackend.update: update_one(query_filter, {"$set": entity})
update(p) ==
    /\ started /\ pc[p] = "idle"
    /\ \E entity_identity \in Identities, entity \in DSEntities :
        IF ~DSValid(entity)
        THEN /\ result' = [result EXCEPT ![p] =
                    Result("update", "ValidationError", {entity_identity}, {}, <<entity>>)]
             /\ UNCHANGED <<collection, created>>
        ELSE IF ~ValidIdentity(entity_identity)
        THEN /\ result' = [result EXCEPT ![p] =
                    Result("update", "InvalidEntityError", {entity_identity}, {}, <<entity>>)]
             /\ UNCHANGED <<collection, created>>
        ELSE LET matched == FindOne(Matching(collection, "identity", {entity_identity}))
                 doc == CHOOSE d \in matched : TRUE
                 new == SetFields(doc, PrepareEntity(entity))
             IN  IF matched = {}
                 THEN /\ result' = [result EXCEPT ![p] =
                             Result("update", "ok", {entity_identity}, {}, <<entity>>)]
                      /\ collection' = UpdateOne(collection, entity_identity,
                                                PrepareEntity(entity))
                      /\ UNCHANGED created
                 ELSE IF DuplicateKey(collection \ {doc}, new)
                 THEN /\ result' = [result EXCEPT ![p] =
                             Result("update", "DuplicateKeyError", {entity_identity}, {},
                                    <<entity>>)]
                      /\ UNCHANGED <<collection, created>>
                 ELSE /\ result' = [result EXCEPT ![p] =
                             Result("update", "ok", {entity_identity},
                                    {Project(new)}, <<entity>>)]
                      /\ collection' = UpdateOne(collection, entity_identity,
                                                PrepareEntity(entity))
                      /\ created' = [i \in DOMAIN created \ {entity_identity} |-> created[i]]
    /\ UNCHANGED <<indices, nextId, started, procs, pc, local>>
    /\ UNCHANGED uploadVars
    /\ UNCHANGED callVars
    /\ UNCHANGED lifeVars

\* MongoDBBackend.delete: every identity is validated, then delete_many
delete(p) ==
    /\ started /\ pc[p] = "idle"
    /\ \E entity_identities \in SUBSET Identities \ {{}} :
        IF \E i \in entity_identities : ~ValidIdentity(i)
        THEN /\ result' = [result EXCEPT ![p] =
                    Result("delete", "InvalidEntityError", entity_identities, {}, <<>>)]
             /\ collection' = collection \ Deleted(collection, entity_identities)
             /\ UNCHANGED created
        ELSE /\ result' = [result EXCEPT ![p] =
                    Result("delete", "ok", entity_identities, {}, <<>>)]
             /\ collection' = collection \ Deleted(collection, entity_identities)
             /\ created' = [i \in DOMAIN created \ entity_identities |-> created[i]]
    /\ UNCHANGED <<indices, nextId, started, procs, pc, local>>
    /\ UNCHANGED uploadVars
    /\ UNCHANGED callVars
    /\ UNCHANGED lifeVars

\* a membership test that lets the validation error of a malformed dict
\* escape; used only to compare with Contains
ContainsRaising(coll, kind, item) ==
    IF kind \in {"str", "dict"}
    THEN IF ~ValidIdentity(IF kind = "str" THEN item
                           ELSE IF "identity" \in DOMAIN item THEN item["identity"] ELSE <<>>)
              \/ (kind = "dict" /\ ~DSValid(item))
         THEN [raised |-> "InvalidEntityError", value |-> FALSE]
         ELSE [raised |-> "none",
               value |-> FindOne(Matching(coll, "identity",
                            {IF kind = "str" THEN item ELSE item["identity"]})) # {}]
    ELSE [raised |-> "none", value |-> FALSE]

\* Backend.__contains__: a dict goes through get_entity and is not contained
\* when that fails; a string, and the identity of the entity made from a
\* dict, is read, and read validates the string; any other value is not
\* contained
Contains(coll, kind, item) ==
    IF kind = "dict" /\ ~DSValid(item)
    THEN [raised |-> "none", value |-> FALSE]
    ELSE IF kind \in {"str", "dict"}
    THEN IF ~ValidIdentity(IF kind = "str" THEN item ELSE item["identity"])
         THEN [raised |-> "InvalidEntityError", value |-> FALSE]
         ELSE [raised |-> "none",
               value |-> FindOne(Matching(coll, "identity",
                            {IF kind = "str" THEN item ELSE item["identity"]})) # {}]
    ELSE [raised |-> "none", value |-> FALSE]

\* item in backend, for a string, a dict or a number
contains(p) ==
    /\ started /\ pc[p] = "idle"
    /\ \E kind \in {"str", "dict", "other"} :
        \E item \in (IF kind = "str" THEN Identities
                     ELSE IF kind = "dict" THEN DSEntities ELSE {42}) :
            result' = [result EXCEPT ![p] =
                Result("contains",
                       IF Contains(collection, kind, item).raised = "none" THEN "ok"
                       ELSE Contains(collection, kind, item).raised,
                       {}, {Contains(collection, kind, item).value}, <<kind, item>>)]
    /\ UNCHANGED <<collection, indices, nextId, started, procs, pc, local, created>>
    /\ UNCHANGED uploadVars
    /\ UNCHANGED callVars
    /\ UNCHANGED lifeVars

Next ==
    \/ initialize
    \/ \E p \in procs : createCall(p)
    \/ \E p \in procs : insertStep(p)
    \/ \E p \in procs : createExists(p)
    \/ \E p \in procs : createReturn(p)
    \/ \E p \in procs : read(p)
    \/ \E p \in procs : search(p)
    \/ \E p \in procs : update(p)
    \/ \E p \in procs : delete(p)

Spec == Init /\ [][Next]_vars

(***************************************************************************)
(* The SOFT models of entities_service and its MongoDBBackend, which       *)
(* addresses a document by its uri or by its namespace, version and name.  *)
(***************************************************************************)
IsPrefix(pre, s) == Len(pre) <= Len(s) /\ SubSeq(s, 1, Len(pre)) = pre

\* AnyHttpUrl(value) validates: an http or https scheme and a host
IsHttpUrl(u) == MatchUriNamespace(u)

\* str(AnyHttpUrl(value)): a URL without a path gets the path "/"
UrlStr(u) ==
    LET scheme == IF IsPrefix(Https, u) THEN Https ELSE Http
        rest == SubSeq(u, Len(scheme) + 1, Len(u))
    IN  IF Positions(rest, "/") = {} THEN u \o <<"/">> ELSE u

IdentityParts == {"name", "version", "namespace"}

\* a check of the identity fields that lets a uri differ from the parts
CrossDependentErrorLax(data) ==
    IF IdentityParts \cap DOMAIN data # {} /\ ~(IdentityParts \subseteq DOMAIN data)
    THEN "all or none of name, version, namespace"
    ELSE IF ~(IdentityParts \subseteq DOMAIN data) /\ "uri" \notin DOMAIN data
    THEN "name, version, namespace or uri must be set"
    ELSE "none"

\* SOFT7Entity._check_cross_dependent_fields and SOFT5Entity._check_cross_dependent_fields
CrossDependentError(data) ==
    IF IdentityParts \cap DOMAIN data # {} /\ ~(IdentityParts \subseteq DOMAIN data)
    THEN "all or none of name, version, namespace"
    ELSE IF ~(IdentityParts \subseteq DOMAIN data) /\ "uri" \notin DOMAIN data
    THEN "name, version, namespace or uri must be set"
    ELSE IF /\ IdentityParts \subseteq DOMAIN data
            /\ "uri" \in DOMAIN data
            /\ data["uri"] # BuildUri(data["namespace"], data["version"], data["name"])
    THEN "uri is not consistent"
    ELSE "none"

\* difflib.ndiff([uri], [namespace/version/name]) in the error of a uri that
\* is not consistent: the two strings, each on its line
CrossDependentDiff(data) ==
    IF CrossDependentError(data) = "uri is not consistent"
    THEN <<data["uri"], BuildUri(data["namespace"], data["version"], data["name"])>>
    ELSE <<>>

\* SOFT7Property / SOFT5Property: type and description are required
PropertiesValid(props) ==
    \A n \in DOMAIN props.items : {"type", "description"} \subseteq DOMAIN props.items[n]

\* SOFT7Entity(**fields) validates
Soft7Valid(data) ==
    /\ CrossDependentError(data) = "none"
    /\ "uri" \in DOMAIN data =>
          /\ IsHttpUrl(data["uri"])
          /\ IsPrefix(BaseNs, UrlStr(data["uri"]))
          /\ UriRegexMatch(UrlStr(data["uri"])).matched
    /\ "namespace" \in DOMAIN data =>
          /\ IsHttpUrl(data["namespace"])
          /\ IsPrefix(BaseNs, UrlStr(data["namespace"]))
    /\ "properties" \in DOMAIN data
    /\ data["properties"].kind = "map"
    /\ PropertiesValid(data["properties"])

\* SOFT5Entity(**fields) validates
Soft5Valid(data) ==
    /\ CrossDependentError(data) = "none"
    /\ "uri" \in DOMAIN data =>
          /\ IsHttpUrl(data["uri"])
          /\ UriRegexMatch(UrlStr(data["uri"])).matched
    /\ "namespace" \in DOMAIN data => IsHttpUrl(data["namespace"])
    /\ "properties" \in DOMAIN data
    /\ data["properties"].kind = "list"
    /\ PropertiesValid(data["properties"])

\* soft_entity(return_errors=True, **fields): SOFT7Entity is tried first, then
\* SOFT5Entity; the errors of the variants that failed are collected in that order
\* the variants in the order SOFT5Entity | SOFT7Entity
VariantsSwapped == <<"SOFT5Entity", "SOFT7Entity">>

\* get_args(VersionedSOFTEntity), VersionedSOFTEntity = SOFT7Entity | SOFT5Entity
Variants == <<"SOFT7Entity", "SOFT5Entity">>

\* versioned_entity_cls(**fields) validates
VariantValid(cls, data) == IF cls = "SOFT7Entity" THEN Soft7Valid(data) ELSE Soft5Valid(data)

\* the loop over the variants from the k-th on, with the errors collected so far
RECURSIVE TryVariants(_, _, _)
TryVariants(data, k, errors) ==
    IF k > Len(Variants) THEN [ok |-> FALSE, variant |-> "none", errors |-> errors]
    ELSE IF VariantValid(Variants[k], data)
    THEN [ok |-> TRUE, variant |-> Variants[k], errors |-> errors]
    ELSE TryVariants(data, k + 1, Append(errors, Variants[k]))

\* a resolver that reports the error of its first attempt alone
soft_entityFirstError(data) ==
    LET r == TryVariants(data, 1, <<>>)
    IN  IF r.ok THEN r ELSE [r EXCEPT !.errors = <<r.errors[1]>>]

soft_entity(data) == TryVariants(data, 1, <<>>)

\* the model built from the fields: URL fields are held as AnyHttpUrl
ToModel(data) ==
    [f \in DOMAIN data |->
        IF f \in {"uri", "namespace"} THEN UrlStr(data[f]) ELSE data[f]]

\* models.get_uri
get_uri(entity) ==
    IF "uri" \in DOMAIN entity THEN entity["uri"]
    ELSE BuildUri(entity["namespace"], entity["version"], entity["name"])

\* models.get_version
get_version(entity) ==
    IF "version" \in DOMAIN entity THEN entity["version"]
    ELSE UriRegexMatch(entity["uri"]).version

\* key.replace("$", "") on the keys of one property
StripDollar(k) == IF k = "$ref" THEN "ref" ELSE k

\* model_dump(by_alias=True): the reference is dumped under its alias $ref
AliasKey(k) == IF k = "ref" THEN "$ref" ELSE k

\* the keys a property may have
PropertyKeys == {"name", "type", "description", "ref", "$ref"}

\* {rename[key]: value for key, value in property.items()}
RenameKeys(pv, rename) ==
    [k \in {rename[x] : x \in DOMAIN pv} |-> pv[CHOOSE x \in DOMAIN pv : rename[x] = k]]

RenameProperties(props, rename) ==
    [kind |-> props.kind,
     items |-> [n \in DOMAIN props.items |-> RenameKeys(props.items[n], rename)]]

\* entity.model_dump(by_alias=True, mode="json", exclude_unset=True)
ModelDump(entity) ==
    [f \in DOMAIN entity |->
        IF f = "properties" THEN RenameProperties(entity[f], [k \in PropertyKeys |-> AliasKey(k)]) ELSE entity[f]]

\* entities_service MongoDBBackend._prepare_entity, for a valid entity
LegacyPrepare(data) ==
    LET dumped == ModelDump(ToModel(data))
    IN  [f \in DOMAIN dumped |->
            IF f = "properties" THEN RenameProperties(dumped[f], [k \in PropertyKeys |-> StripDollar(k)]) ELSE dumped[f]]

MapProps == [kind |-> "map", items |-> "p" :> ("type" :> "int" @@ "description" :> "d")]
MapPropsRef ==
    [kind |-> "map",
     items |-> "p" :> ("type" :> "ref" @@ "$ref" :> "R" @@ "description" :> "d")]
ListProps ==
    [kind |-> "list",
     items |-> <<"name" :> "p" @@ "type" :> "int" @@ "description" :> "d">>]
\* a property without its description
MapPropsBare == [kind |-> "map", items |-> "p" :> ("type" :> "int")]

\* the entity of identity namespace/version/name, given by uri, by parts or both
ByUri(name, props) == "uri" :> BuildUri(BaseNs, V01, name) @@ "properties" :> props
ByParts(name, props) ==
    "namespace" :> BaseNs @@ "version" :> V01 @@ "name" :> name @@ "properties" :> props

LegacyEntities ==
    {ByUri(<<"A">>, MapProps), ByParts(<<"A">>, MapPropsRef),
     ByUri(<<"A">>, MapProps) @@ ByParts(<<"A">>, MapProps),
     ByParts(<<"B">>, ListProps),
     ByUri(<<"B">>, MapProps) @@ ByParts(<<"A">>, MapProps)}

UriIndex == [unique |-> TRUE, key |-> <<"uri", "namespace", "version", "name">>]

\* entities_service MongoDBBackend.initialize
legacyInitialize ==
    /\ indices' = IF "URI" \in DOMAIN indices THEN indices
                  ELSE indices @@ ("URI" :> UriIndex)
    /\ started' = TRUE
    /\ UNCHANGED <<collection, nextId, procs, pc, local, result, created>>
    /\ UNCHANGED uploadVars
    /\ UNCHANGED callVars
    /\ UNCHANGED lifeVars

\* insert_many(docs), ordered: what the collection holds afterwards and how
\* many documents were inserted before the first duplicate key error
RECURSIVE InsertMany(_, _, _, _)
InsertMany(coll, docs, k, id) ==
    IF k > Len(docs) THEN [coll |-> coll, inserted |-> k - 1]
    ELSE LET doc == docs[k] @@ ("_id" :> id)
         IN  IF DuplicateKey(coll, doc) THEN [coll |-> coll, inserted |-> k - 1]
             ELSE InsertMany(coll \cup {doc}, docs, k + 1, id + 1)

\* MongoDBBackend._single_uri_query: {"$or": [uri_parts, {"uri": uri}]}
SingleUriQuery(coll, uri) ==
    LET uri_parts == UriRegexMatch(uri)
    IN  {d \in coll :
            \/ /\ IdentityParts \subseteq DOMAIN d
               /\ d["namespace"] = uri_parts.namespace
               /\ d["version"] = uri_parts.version
               /\ d["name"] = uri_parts.name
            \/ "uri" \in DOMAIN d /\ d["uri"] = uri}

\* entities_service MongoDBBackend.create
legacyCreate(p) ==
    /\ started
    /\ \E n \in 1..MaxBatch : \E batch \in [1..n -> LegacyEntities] :
        /\ nextId - 1 + n <= MaxInserts
        /\ IF \E i \in 1..n : ~soft_entity(batch[i]).ok
           THEN /\ result' = [result EXCEPT ![p] =
                       Result("create", "ValueError", {}, {}, batch)]
                /\ UNCHANGED <<collection, nextId>>
           ELSE LET ins == InsertMany(collection, [i \in 1..n |-> LegacyPrepare(batch[i])],
                                      1, nextId)
                IN  /\ collection' = ins.coll
                    /\ nextId' = nextId + ins.inserted
                    /\ result' = [result EXCEPT ![p] =
                           IF ins.inserted < n
                           THEN Result("create", "BulkWriteError", {}, {}, batch)
                           ELSE Result("create", "ok", {get_uri(ToModel(batch[i])) : i \in 1..n},
                                       {Project(d) : d \in ins.coll \ collection}, batch)]
    /\ UNCHANGED <<indices, started, procs, pc, local, created>>
    /\ UNCHANGED uploadVars
    /\ UNCHANGED callVars
    /\ UNCHANGED lifeVars

\* entities_service MongoDBBackend.read
legacyRead(p) ==
    /\ started
    /\ \E uri \in Identities :
        result' = [result EXCEPT ![p] =
            IF ~UriRegexMatch(uri).matched
            THEN Result("read", "ValueError", {uri}, {}, <<>>)
            ELSE Result("read", "ok", {uri},
                        {Project(d) : d \in FindOne(SingleUriQuery(collection, uri))}, <<>>)]
    /\ UNCHANGED <<collection, indices, nextId, started, procs, pc, local, created>>
    /\ UNCHANGED uploadVars
    /\ UNCHANGED callVars
    /\ UNCHANGED lifeVars

\* entities_service MongoDBBackend.update
legacyUpdate(p) ==
    /\ started
    /\ \E uri \in Identities, entity \in LegacyEntities :
        IF ~soft_entity(entity).ok \/ ~UriRegexMatch(uri).matched
        THEN /\ result' = [result EXCEPT ![p] =
                    Result("update", "ValueError", {uri}, {}, <<entity>>)]
             /\ UNCHANGED collection
        ELSE LET matched == FindOne(SingleUriQuery(collection, uri))
                 doc == CHOOSE d \in matched : TRUE
                 new == SetFields(doc, LegacyPrepare(entity))
             IN  IF matched = {}
                 THEN /\ result' = [result EXCEPT ![p] =
                             Result("update", "ok", {uri}, {}, <<entity>>)]
                      /\ UNCHANGED collection
                 ELSE IF DuplicateKey(collection \ {doc}, new)
                 THEN /\ result' = [result EXCEPT ![p] =
                             Result("update", "DuplicateKeyError", {uri}, {}, <<entity>>)]
                      /\ UNCHANGED collection
                 ELSE /\ result' = [result EXCEPT ![p] =
                             Result("update", "ok", {uri}, {Project(new)}, <<entity>>)]
                      /\ collection' = (collection \ {doc}) \cup {new}
    /\ UNCHANGED <<indices, nextId, started, procs, pc, local, created>>
    /\ UNCHANGED uploadVars
    /\ UNCHANGED callVars
    /\ UNCHANGED lifeVars

\* entities_service MongoDBBackend.delete: delete_one
legacyDelete(p) ==
    /\ started
    /\ \E uri \in Identities :
        IF ~UriRegexMatch(uri).matched
        THEN /\ result' = [result EXCEPT ![p] =
                    Result("delete", "ValueError", {uri}, {}, <<>>)]
             /\ UNCHANGED collection
        ELSE /\ result' = [result EXCEPT ![p] = Result("delete", "ok", {uri}, {}, <<>>)]
             /\ collection' = collection \ FindOne(SingleUriQuery(collection, uri))
    /\ UNCHANGED <<indices, nextId, started, procs, pc, local, created>>
    /\ UNCHANGED uploadVars
    /\ UNCHANGED callVars
    /\ UNCHANGED lifeVars

NextLegacy ==
    \/ legacyInitialize
    \/ \E p \in procs : legacyCreate(p)
    \/ \E p \in procs : legacyRead(p)
    \/ \E p \in procs : legacyUpdate(p)
    \/ \E p \in procs : legacyDelete(p)

SpecLegacy == Init /\ [][NextLegacy]_vars

(***************************************************************************)
(* Two requests that each call create() once, on an initialized backend.   *)
(***************************************************************************)
InitRace ==
    /\ collection = {}
    /\ indices = ("_id_" :> IdIndex) @@ ("IDENTITY" :> IdentityIndex)
    /\ nextId = 1
    /\ started = TRUE
    /\ procs = {1, 2}
    /\ pc = [p \in procs |-> "idle"]
    /\ local = [p \in procs |-> IdleLocal]
    /\ result = [p \in procs |-> NoResult]
    /\ created = <<>>
    /\ NoUpload
    /\ NoCall
    /\ AllOpen

firstCreateCall(p) == result[p].op = "none" /\ createCall(p)

NextRace ==
    \/ \E p \in procs : firstCreateCall(p)
    \/ \E p \in procs : insertStep(p)
    \/ \E p \in procs : createExists(p)
    \/ \E p \in procs : createReturn(p)

SpecRace == InitRace /\ [][NextRace]_vars

(***************************************************************************)
(* Two requests that each call update() once, on a backend that holds the  *)
(* entity A as create() stored it.  update() sends one update_one to the   *)
(* store, which applies the update_one calls to a document one at a time.  *)
(***************************************************************************)
StoredA == "identity" :> IdA @@ "properties" :> PropsPlain

InitUpdateRace ==
    /\ collection = {PrepareEntity(StoredA) @@ ("_id" :> 1)}
    /\ indices = ("_id_" :> IdIndex) @@ ("IDENTITY" :> IdentityIndex)
    /\ nextId = 2
    /\ started = TRUE
    /\ procs = {1, 2}
    /\ pc = [p \in procs |-> "idle"]
    /\ local = [p \in procs |-> IdleLocal]
    /\ result = [p \in procs |-> NoResult]
    /\ created = (IdA :> StoredA)
    /\ NoUpload
    /\ NoCall
    /\ AllOpen

firstUpdate(p) == result[p].op = "none" /\ update(p)

NextUpdateRace == \E p \in procs : firstUpdate(p)

SpecUpdateRace == InitUpdateRace /\ [][NextUpdateRace]_vars

(***************************************************************************)
(* Properties of the dataspaces_entities backend.                          *)
(***************************************************************************)
StoredIds(coll) == {d["identity"] : d \in {x \in coll : "identity" \in DOMAIN x}}

BatchIds(batch) == {get_identity(batch[i]) : i \in 1..Len(batch)}

(***************************************************************************)
(* The upload command of the entities-service command-line client.         *)
(***************************************************************************)
DigitSeq == <<"0", "1", "2", "3", "4", "5", "6", "7", "8", "9">>

\* int(s) for a run of digits
RECURSIVE ToInt(_)
ToInt(s) ==
    IF Len(s) = 0 THEN 0
    ELSE 10 * ToInt(SubSeq(s, 1, Len(s) - 1))
         + (CHOOSE d \in 0..9 : DigitSeq[d + 1] = s[Len(s)])

\* str(n) for a natural number
RECURSIVE ToStr(_)
ToStr(n) == IF n < 10 THEN <<DigitSeq[n + 1]>> ELSE ToStr(n \div 10) \o <<DigitSeq[(n % 10) + 1]>>

\* a grammar check that lets every version through
MatchCliVersionAny(v) == TRUE

\* re.match(r"^\d+(?:\.\d+){0,2}$", new_version)
MatchCliVersion(v) ==
    LET parts == Split(v, ".")
    IN  Len(parts) \in 1..3 /\ \A i \in 1..Len(parts) : IsDigits(parts[i])

\* a suggestion that appends .1 to every numeric version
UpdatedVersionAppend(current_version) ==
    IF \E i \in 1..Len(Split(current_version, ".")) : ~IsDigits(Split(current_version, ".")[i])
    THEN [ok |-> FALSE, value |-> <<>>]
    ELSE [ok |-> TRUE, value |-> current_version \o <<".", "1">>]

\* the body of models.get_updated_version: the suggestion, or ValueError
UpdatedVersion(current_version) ==
    LET split_version == Split(current_version, ".")
    IN  IF \E i \in 1..Len(split_version) : ~IsDigits(split_version[i])
        THEN [ok |-> FALSE, value |-> <<>>]
        ELSE IF Len(split_version) = 1
        THEN [ok |-> TRUE, value |-> split_version[1] \o <<".", "1">>]
        ELSE IF Len(split_version) = 2
        THEN [ok |-> TRUE,
              value |-> split_version[1] \o <<".">> \o split_version[2] \o <<".", "1">>]
        ELSE IF Len(split_version) = 3
        THEN [ok |-> TRUE,
              value |-> split_version[1] \o <<".">> \o split_version[2] \o <<".">>
                        \o ToStr(ToInt(split_version[3]) + 1)]
        ELSE [ok |-> FALSE, value |-> <<>>]

\* models.get_updated_version
get_updated_version(entity) == UpdatedVersion(get_version(entity)).value

\* key.replace("$ref", "ref")
ReplaceDollarRef(k) == IF k = "$ref" THEN "ref" ELSE k

\* the entity as it is put in the batch: dumped by alias, then $ref renamed to ref
UploadDump(entity) ==
    RenameProperties(ModelDump(entity).properties, [k \in PropertyKeys |-> ReplaceDollarRef(k)])

UploadEntity(entity) ==
    [f \in DOMAIN entity |-> IF f = "properties" THEN UploadDump(entity) ELSE entity[f]]

\* a version change that rewrites the version field alone
UpdateVersionOnly(entity, new_version) ==
    [raised |-> FALSE,
     entity |-> IF "version" \in DOMAIN entity
                THEN SetFields(entity, "version" :> new_version)
                ELSE entity]

\* "Update version and URI": version and uri are assigned without validation;
\* URI_REGEX.match(str(uri)) may be None, and match.group then raises
UpdateVersion(entity, new_version) ==
    LET e1 == IF "version" \in DOMAIN entity
              THEN SetFields(entity,
                       "version" :> new_version
                       @@ "uri" :> UrlStr(BuildUri(entity["namespace"], new_version,
                                                   entity["name"])))
              ELSE entity
        match == UriRegexMatch(e1["uri"])
    IN  IF ~match.matched THEN [raised |-> TRUE, entity |-> e1]
        ELSE [raised |-> FALSE,
              entity |-> SetFields(e1, "uri" :> UrlStr(BuildUri(match.namespace, new_version,
                                                                match.name)))]

\* the --format option, at its default
FileFormats == {"json"}

V02 == <<"0", ".", "2">>
\* a SOFT7 entity given by uri, one given by namespace, version and name with a
\* reference property, one given both ways, one whose uri and parts disagree,
\* and a file of another format
FileA == [format |-> "json", entity |-> ByUri(<<"A">>, MapProps)]
FileB == [format |-> "json", entity |-> ByParts(<<"B">>, MapPropsRef)]
FileAB == [format |-> "json",
           entity |-> ByUri(<<"A">>, MapProps) @@ ByParts(<<"A">>, MapProps)]
\* a SOFT5 entity whose namespace is a URL without a path
HostNs == Http \o <<"x">>
FileHost == [format |-> "json",
             entity |-> "uri" :> BuildUri(HostNs, V01, <<"A">>) @@ "namespace" :> HostNs
                        @@ "version" :> V01 @@ "name" :> <<"A">> @@ "properties" :> ListProps]
FileInvalid == [format |-> "json",
                entity |-> ByUri(<<"B">>, MapProps) @@ ByParts(<<"A">>, MapProps)]
FileTxt == [format |-> "txt", entity |-> ByUri(<<"A">>, MapProps)]
Files == {FileA, FileB, FileAB, FileHost, FileInvalid, FileTxt}

\* unique_filepaths in the order the loop visits them
FileLists ==
    UNION {{fs \in [1..n -> Files] : \A i, j \in 1..n : fs[i] = fs[j] => i = j} : n \in 0..MaxFiles}

\* what the operator may type at the version prompt
VersionInputs(entity) ==
    {get_version(entity), get_updated_version(entity), V02,
     <<"v", "1">>, <<"1", "0">>, <<"1", ".", "2", ".", "3", ".", "4">>}

\* how the registry may answer the GET of the entity's uri
GetResponses == {"http_error", "json_error", "not_found", "same", "differs"}
\* how the registry may answer a POST to /_admin/create
PostResponses == {"http_error", "failure", "success"}

InitUpload ==
    /\ InitStore
    /\ procs = {1}
    /\ pc = [p \in procs |-> "idle"]
    /\ local = [p \in procs |-> IdleLocal]
    /\ result = [p \in procs |-> NoResult]
    /\ created = <<>>
    /\ files \in FileLists
    /\ fail_fast \in BOOLEAN
    /\ upc = "login"
    /\ upos = 0
    /\ successes = <<>>
    /\ skipped = <<>>
    /\ failed = <<>>
    /\ informed = {}
    /\ requests = <<>>
    /\ messages = <<>>
    /\ entered = <<>>
    /\ exitCode = "none"
    /\ answers = <<>>
    /\ NoCall
    /\ AllOpen

Request(kind, uri, body) == [kind |-> kind, uri |-> uri, body |-> body]
Message(file, error) == [file |-> file, error |-> error]

\* login(quiet=True), then the checks that there is something to upload
uploadLogin ==
    /\ upc = "login"
    /\ requests' = Append(requests, Request("login", <<>>, <<>>))
    /\ \E response \in PostResponses :
        IF response # "success"
        THEN /\ messages' = Append(messages, Message(0, "Could not login"))
             /\ exitCode' = "1"
             /\ upc' = "done"
             /\ UNCHANGED upos
        ELSE IF files = <<>>
        THEN /\ messages' = Append(messages, Message(0, "No files found"))
             /\ exitCode' = "1"
             /\ upc' = "done"
             /\ UNCHANGED upos
        ELSE /\ upc' = "loop"
             /\ upos' = 1
             /\ UNCHANGED <<messages, exitCode>>
    /\ UNCHANGED <<files, fail_fast, successes, skipped, failed, informed, entered, answers>>
    /\ UNCHANGED backendVars
    /\ UNCHANGED callVars
    /\ UNCHANGED lifeVars

\* the version typed at the prompt is refused: the error printed, or "none"
VersionError(entity, new_version) ==
    IF new_version = get_version(entity) THEN "is the same as the existing version"
    ELSE IF ~MatchCliVersion(new_version) THEN "is not a valid SOFT version"
    ELSE "none"

\* a failing file goes on to the next file whatever --fail-fast says
OnFailureContinue(failFast) == "failed"

\* "if fail_fast: raise typer.Exit(1)", else "failed.append(filepath)"
OnFailure(failFast) == IF failFast THEN "exit" ELSE "failed"

\* a file is skipped only when the registry holds the same content
SkipsOnlySame(response, update_version) == response = "same"

\* the registry holds the same content, or the operator declines a new version
Skips(response, update_version) == response = "same" \/ ~update_version

\* one pass of the loop body over a file: how it ends (the file is skipped,
\* failed or a success, or the command exits or raises), which error is
\* printed, whether the registry was asked and whether a version was typed
Pass(kind, error, entity, asked, typed) ==
    [kind |-> kind, error |-> error, entity |-> entity, asked |-> asked, typed |-> typed]

\* a loop body that goes on to the next file without noting a file of another
\* format as skipped; used only to compare with LoopBody
LoopBodyNoFormatNote(file, response, update_version, new_version) ==
    LET entity == ToModel(file.entity)
        updated == UpdateVersion(entity, new_version)
    IN  IF file.format \notin FileFormats
        THEN Pass("next", "none", entity, FALSE, FALSE)
        ELSE IF ~soft_entity(file.entity).ok
        THEN Pass(OnFailure(fail_fast), "is not a valid SOFT entity", entity, FALSE, FALSE)
        ELSE IF response \in {"http_error", "json_error"}
        THEN Pass("exit", "Could not check if entity already exists", entity, TRUE, FALSE)
        ELSE IF response = "not_found"
        THEN Pass("success", "none", UploadEntity(entity), TRUE, FALSE)
        ELSE IF Skips(response, update_version)
        THEN Pass("skipped", "none", entity, TRUE, FALSE)
        ELSE IF VersionError(entity, new_version) # "none"
        THEN Pass(OnFailure(fail_fast), VersionError(entity, new_version), entity, TRUE, TRUE)
        ELSE IF updated.raised
        THEN Pass("raised", "AttributeError", entity, TRUE, TRUE)
        ELSE Pass("success", "none", UploadEntity(updated.entity), TRUE, TRUE)

LoopBody(file, response, update_version, new_version) ==
    LET entity == ToModel(file.entity)
        updated == UpdateVersion(entity, new_version)
    IN  IF file.format \notin FileFormats
        THEN Pass("skipped", "none", entity, FALSE, FALSE)
        ELSE IF ~soft_entity(file.entity).ok
        THEN Pass(OnFailure(fail_fast), "is not a valid SOFT entity", entity, FALSE, FALSE)
        ELSE IF response \in {"http_error", "json_error"}
        THEN Pass("exit", "Could not check if entity already exists", entity, TRUE, FALSE)
        ELSE IF response = "not_found"
        THEN Pass("success", "none", UploadEntity(entity), TRUE, FALSE)
        ELSE IF Skips(response, update_version)
        THEN Pass("skipped", "none", entity, TRUE, FALSE)
        ELSE IF VersionError(entity, new_version) # "none"
        THEN Pass(OnFailure(fail_fast), VersionError(entity, new_version), entity, TRUE, TRUE)
        ELSE IF updated.raised
        THEN Pass("raised", "AttributeError", entity, TRUE, TRUE)
        ELSE Pass("success", "none", UploadEntity(updated.entity), TRUE, TRUE)

\* the body of "for filepath in unique_filepaths" for the file at upos
uploadFile ==
    /\ upc = "loop"
    /\ \E response \in GetResponses, update_version \in BOOLEAN,
          new_version \in VersionInputs(ToModel(files[upos].entity)) :
        LET file == files[upos]
            pass == LoopBody(file, response, update_version, new_version)
        IN  /\ requests' = IF pass.asked
                           THEN Append(requests,
                                    Request("get", get_uri(ToModel(file.entity)), <<>>))
                           ELSE requests
            /\ answers' = IF pass.asked
                        THEN Append(answers,
                                 [file |-> upos, response |-> response,
                                  update_version |-> response = "differs" /\ update_version])
                        ELSE answers
            /\ entered' = IF pass.typed
                          THEN Append(entered, [file |-> upos, new_version |-> new_version,
                                                existing |-> get_version(ToModel(file.entity))])
                          ELSE entered
            /\ messages' = IF pass.error # "none"
                           THEN Append(messages, Message(upos, pass.error))
                           ELSE messages
            /\ informed' = IF file.format \notin FileFormats
                           THEN informed \cup {file.format} ELSE informed
            /\ successes' = IF pass.kind = "success"
                            THEN Append(successes, [file |-> upos, entity |-> pass.entity])
                            ELSE successes
            /\ skipped' = IF pass.kind = "skipped" THEN Append(skipped, upos) ELSE skipped
            /\ failed' = IF pass.kind = "failed" THEN Append(failed, upos) ELSE failed
            /\ IF pass.kind \in {"exit", "raised"}
               THEN /\ exitCode' = "1"
                    /\ upc' = "done"
                    /\ UNCHANGED upos
               ELSE /\ upos' = upos + 1
                    /\ upc' = IF upos = Len(files) THEN "finish" ELSE "loop"
                    /\ UNCHANGED exitCode
    /\ UNCHANGED <<files, fail_fast>>
    /\ UNCHANGED backendVars
    /\ UNCHANGED callVars
    /\ UNCHANGED lifeVars

\* "if failed: ... raise typer.Exit(1)"
ExitOnFailed(failedFiles) == failedFiles # <<>>

\* after the loop: exit on failures, else one POST of all successes
uploadFinish ==
    /\ upc = "finish"
    /\ upc' = "done"
    /\ IF ExitOnFailed(failed)
       THEN /\ messages' = Append(messages, Message(0, "Failed to upload"))
            /\ exitCode' = "1"
            /\ UNCHANGED requests
       ELSE IF successes # <<>>
       THEN /\ requests' = Append(requests,
                               Request("create", <<>>,
                                       [i \in 1..Len(successes) |-> successes[i].entity]))
            /\ \E response \in PostResponses :
                IF response = "success"
                THEN exitCode' = "0" /\ UNCHANGED messages
                ELSE /\ exitCode' = "1"
                     /\ messages' = Append(messages, Message(0, "Could not upload"))
       ELSE /\ exitCode' = "0"
            /\ UNCHANGED <<requests, messages>>
    /\ UNCHANGED <<files, fail_fast, upos, successes, skipped, failed, informed, entered, answers>>
    /\ UNCHANGED backendVars
    /\ UNCHANGED callVars
    /\ UNCHANGED lifeVars

NextUpload ==
    \/ uploadLogin
    \/ uploadFile
    \/ uploadFinish

SpecUpload == InitUpload /\ [][NextUpload]_vars

(***************************************************************************)
(* The functions of the models package, each called once on an argument.   *)
(***************************************************************************)
\* the characters of the version strings tried
VersionChars == {"0", "1", "9", ".", "v"}
VersionStrings == UNION {[1..n -> VersionChars] : n \in 1..MaxVersionLen}

\* a field left out of the payload
Absent == <<>>
NoProps == [kind |-> "absent", items |-> <<>>]

PropsOf(shape) ==
    CASE shape = "absent" -> NoProps
      [] shape = "map" -> MapProps
      [] shape = "list" -> ListProps
      [] shape = "bare" -> MapPropsBare

\* the payload with the fields that are given
Payload(uri, namespace, version, name, properties) ==
    LET given == {f \in {"uri", "namespace", "version", "name"} :
                     CASE f = "uri" -> uri # Absent
                       [] f = "namespace" -> namespace # Absent
                       [] f = "version" -> version # Absent
                       [] f = "name" -> name # Absent}
                 \cup (IF properties.kind = "absent" THEN {} ELSE {"properties"})
    IN  [f \in given |->
            CASE f = "uri" -> uri
              [] f = "namespace" -> namespace
              [] f = "version" -> version
              [] f = "name" -> name
              [] f = "properties" -> properties]

\* raw payloads: every field given or left out, the uri equal to the parts,
\* different from them or no URL, both shapes of properties
IsPayload(data) ==
    \E u \in {Absent, IdA, IdB, BadId, BuildUri(HostNs, V01, <<"A">>)},
       n \in {Absent, BaseNs, HostNs},
       v \in {Absent, V01},
       m \in {Absent, <<"A">>},
       p \in {"absent", "map", "list", "bare"} :
        data = Payload(u, n, v, m, PropsOf(p))

\* namespace, version and name to build an identity from
Triples ==
    [namespace : {BaseNs, Https \o <<"x">>, <<"f", "t", "p", ":", "/", "/", "x">>},
     version : VersionStrings,
     name : {<<"A">>, <<"a", "#">>}]

\* the largest display limit and the longest list of identities tried
MaxLimit == 2
MaxIds == 3

\* the setting max_entities_in_errors of the service configuration: a
\* positive number of identities
DisplayLimits == 1..MaxLimit

IdC == BuildUri(BaseNs, V01, <<"C">>)

\* the lists of identities handed to generate_error_display_ids
IdLists == UNION {[1..n -> {IdA, IdB, IdC}] : n \in 0..MaxIds}

\* f"... and {remaining_count} more"
AndMore(remaining_count) ==
    <<".", ".", ".", " ", "a", "n", "d", " ">> \o ToStr(remaining_count)
        \o <<" ", "m", "o", "r", "e">>

\* list(set(entity_ids)): every identity once, in an order the set picks
Deduplicated(entity_ids) ==
    LET S == {entity_ids[i] : i \in 1..Len(entity_ids)}
    IN  {q \in [1..Cardinality(S) -> S] : \A i, j \in 1..Cardinality(S) : q[i] = q[j] => i = j}

\* a display list that adds the closing entry also when nothing remains; used
\* only to compare with DisplayIds
DisplayIdsAlwaysMore(entity_ids, max_entities_in_errors) ==
    IF Len(entity_ids) - max_entities_in_errors >= 0
    THEN Append(SubSeq(entity_ids, 1, max_entities_in_errors),
                AndMore(Len(entity_ids) - max_entities_in_errors))
    ELSE entity_ids

\* generate_error_display_ids, lines 62-67: entity_ids[:max_entities_in_errors]
\* and, when more remain, the entry that counts them
DisplayIds(entity_ids, max_entities_in_errors) ==
    LET display_ids ==
            IF Len(entity_ids) <= max_entities_in_errors THEN entity_ids
            ELSE SubSeq(entity_ids, 1, max_entities_in_errors)
        remaining_count == Len(entity_ids) - max_entities_in_errors
    IN  IF remaining_count > 0
        THEN Append(display_ids, AndMore(remaining_count))
        ELSE display_ids

InitModels ==
    /\ InitStore
    /\ procs = {1}
    /\ pc = [p \in procs |-> "idle"]
    /\ local = [p \in procs |-> IdleLocal]
    /\ result = [p \in procs |-> NoResult]
    /\ created = <<>>
    /\ NoUpload
    /\ AllOpen
    /\ out = [done |-> FALSE]
    /\ \/ called = "get_updated_version" /\ arg \in VersionStrings
       \/ called = "soft_entity" /\ IsPayload(arg)
       \/ called = "URI_REGEX.match" /\ arg \in Triples
       \/ /\ called = "generate_error_display_ids"
          /\ \E ids \in IdLists, limit \in DisplayLimits :
                 arg = [entity_ids |-> ids, max_entities_in_errors |-> limit]

\* get_updated_version of an entity whose version is arg
callGetUpdatedVersion ==
    /\ called = "get_updated_version"
    /\ ~out.done
    /\ out' = [done |-> TRUE, ok |-> UpdatedVersion(arg).ok, value |-> UpdatedVersion(arg).value]
    /\ UNCHANGED <<called, arg, backendVars, uploadVars, lifeVars>>

\* soft_entity(return_errors=True, **arg), with the error of the check of the
\* identity fields that either variant raises
callSoftEntity ==
    /\ called = "soft_entity"
    /\ ~out.done
    /\ out' = [done |-> TRUE, ok |-> soft_entity(arg).ok, variant |-> soft_entity(arg).variant,
               errors |-> soft_entity(arg).errors, cross |-> CrossDependentError(arg),
               diff |-> CrossDependentDiff(arg)]
    /\ UNCHANGED <<called, arg, backendVars, uploadVars, lifeVars>>

\* URI_REGEX.match(f"{namespace}/{version}/{name}")
callUriMatch ==
    /\ called = "URI_REGEX.match"
    /\ ~out.done
    /\ LET match == UriRegexMatch(BuildUri(arg.namespace, arg.version, arg.name))
       IN  out' = IF match.matched
                  THEN [done |-> TRUE, matched |-> TRUE, namespace |-> match.namespace,
                        version |-> match.version, name |-> match.name]
                  ELSE [done |-> TRUE, matched |-> FALSE]
    /\ UNCHANGED <<called, arg, backendVars, uploadVars, lifeVars>>

\* generate_error_display_ids(entity_ids=arg.entity_ids)
callGenerateErrorDisplayIds ==
    /\ called = "generate_error_display_ids"
    /\ ~out.done
    /\ \E deduplicated \in Deduplicated(arg.entity_ids) :
           out' = [done |-> TRUE,
                   value |-> DisplayIds(deduplicated, arg.max_entities_in_errors)]
    /\ UNCHANGED <<called, arg, backendVars, uploadVars, lifeVars>>

NextModels ==
    \/ callGetUpdatedVersion
    \/ callSoftEntity
    \/ callUriMatch
    \/ callGenerateErrorDisplayIds

SpecModels == InitModels /\ [][NextModels]_vars

(***************************************************************************)
(* The dataspaces_entities backend on a collection that the                *)
(* entities_service backend wrote to (both default to the database         *)
(* entities_service and the collection entities).                          *)
(***************************************************************************)
\* a descriptor of identity IdA as entities_service stored it, by uri or by
\* namespace, version and name
HistoricalDocs ==
    {LegacyPrepare(ByUri(<<"A">>, MapProps)), LegacyPrepare(ByParts(<<"A">>, MapProps))}

\* the collection holds one such document; the backend is constructed and
\* not yet initialized
InitHistorical ==
    /\ \E h \in HistoricalDocs : collection = {h @@ ("_id" :> 1)}
    /\ indices = ("_id_" :> IdIndex)
    /\ nextId = 2
    /\ started = FALSE
    /\ NoUpload
    /\ NoCall
    /\ AllOpen
    /\ procs = {1}
    /\ pc = [p \in procs |-> "idle"]
    /\ local = [p \in procs |-> IdleLocal]
    /\ result = [p \in procs |-> NoResult]
    /\ created = <<>>

SpecHistorical == InitHistorical /\ [][Next]_vars

(***************************************************************************)
(* create on a store whose writes can fail.                                *)
(***************************************************************************)
\* what insert_many can raise when no key is duplicated: a BulkWriteError
\* whose writeErrors hold other codes (121: document failed validation) or
\* that has write concern errors only, and an OperationFailure (13: not
\* authorized)
Failures ==
    {[exc |-> "BulkWriteError", codes |-> <<121>>],
     [exc |-> "BulkWriteError", codes |-> <<>>],
     [exc |-> "OperationFailure", codes |-> <<13>>]}

\* insert_many fails at the document it has come to, for a reason other than
\* a duplicate key; what was inserted before stays. The call ends with what
\* the create route raises, and the codes of the failure in ret.
insertFails(p) ==
    /\ pc[p] = "insert"
    /\ \E failure \in Failures :
        LET entity_ids == {get_identity(local[p].batch[i]) : i \in 1..Len(local[p].batch)}
            existing_entity_ids == {get_identity(d) : d \in Matching(collection, "identity", entity_ids)}
        IN  result' = [result EXCEPT ![p] =
                Result("create", RouteRaises(CreateRaises(failure)),
                       IF CreateRaises(failure) = "EntityExists" THEN existing_entity_ids ELSE {},
                       {failure.codes[i] : i \in 1..Len(failure.codes)},
                       local[p].given)]
    /\ pc' = [pc EXCEPT ![p] = "idle"]
    /\ local' = [local EXCEPT ![p] = IdleLocal]
    /\ UNCHANGED <<collection, indices, nextId, started, procs, created>>
    /\ UNCHANGED uploadVars
    /\ UNCHANGED callVars
    /\ UNCHANGED lifeVars

NextWriteFail ==
    \/ initialize
    \/ \E p \in procs : createCall(p)
    \/ \E p \in procs : insertStep(p)
    \/ \E p \in procs : insertFails(p)
    \/ \E p \in procs : createExists(p)
    \/ \E p \in procs : createReturn(p)

SpecWriteFail == Init /\ [][NextWriteFail]_vars

(***************************************************************************)
(* initialize() on a collection that exists already.                       *)
(***************************************************************************)
\* the indices named IDENTITY that initialize() warns about: not unique, or
\* not on the identity field alone
Misconfigured ==
    {[unique |-> u, key |-> k] : u \in BOOLEAN, k \in {<<"identity">>, <<"name">>}}
        \ {IdentityIndex}

\* the backend constructed on a collection that may hold an IDENTITY index of
\* any making
InitExisting ==
    /\ collection = {}
    /\ \/ indices = ("_id_" :> IdIndex)
       \/ \E ix \in Misconfigured \cup {IdentityIndex} :
              indices = ("_id_" :> IdIndex) @@ ("IDENTITY" :> ix)
    /\ nextId = 1
    /\ started = FALSE
    /\ NoUpload
    /\ NoCall
    /\ AllOpen
    /\ procs = {1}
    /\ pc = [p \in procs |-> "idle"]
    /\ local = [p \in procs |-> IdleLocal]
    /\ result = [p \in procs |-> NoResult]
    /\ created = <<>>

NextExisting ==
    \/ initialize
    \/ \E p \in procs : createCall(p)
    \/ \E p \in procs : insertStep(p)
    \/ \E p \in procs : createExists(p)
    \/ \E p \in procs : createReturn(p)

SpecExisting == InitExisting /\ [][NextExisting]_vars

(***************************************************************************)
(* The routes PUT /entities and PATCH /entities of dataspaces_entities.    *)
(* A request reaches the store once per backend call; between two calls    *)
(* the requests of other workers can reach it.                             *)
(***************************************************************************)
\* the entities of a list whose identity is, or is not, among ids
RECURSIVE Select(_, _, _)
Select(entities, ids, wanted) ==
    IF entities = <<>> THEN <<>>
    ELSE IF (get_identity(Head(entities)) \in ids) = wanted
         THEN <<Head(entities)>> \o Select(Tail(entities), ids, wanted)
         ELSE Select(Tail(entities), ids, wanted)

\* the identities search(by_identities=entity_ids) finds stored
Existing(coll, entity_ids) ==
    {get_identity(d) : d \in Found(coll, <<>>, <<>>, entity_ids)}

\* update_entities, lines 206-248: parse, search for the identities of the
\* request, and split the entities into those to update and the new ones
putCall(p) ==
    /\ started /\ pc[p] = "idle"
    /\ \E entities \in Batches :
        /\ nextId - 1 + SumOver(Pending, procs) + Len(entities) <= MaxInserts
        /\ IF \E i \in 1..Len(entities) : ~DSValid(entities[i])
           THEN /\ result' = [result EXCEPT ![p] =
                       Result("put", "RequestValidationError", {}, {}, entities)]
                /\ UNCHANGED <<pc, local>>
           ELSE LET entity_ids == BatchIds(entities)
                    existing_entity_ids == Existing(collection, entity_ids)
                    entities_to_be_updated == Select(entities, existing_entity_ids, TRUE)
                    new_entities == Select(entities, existing_entity_ids, FALSE)
                IN  /\ local' = [local EXCEPT ![p] =
                           [given |-> entities,
                            batch |-> [i \in 1..Len(new_entities) |-> PrepareEntity(new_entities[i])],
                            k |-> 1, ids |-> {}, pre |-> collection,
                            todo |-> entities_to_be_updated]]
                    /\ pc' = [pc EXCEPT ![p] =
                           IF entities_to_be_updated # <<>> THEN "put_update" ELSE "insert"]
                    /\ UNCHANGED result
    /\ UNCHANGED <<collection, indices, nextId, started, procs, created>>
    /\ UNCHANGED uploadVars
    /\ UNCHANGED callVars
    /\ UNCHANGED lifeVars

\* update_entities, lines 250-269 and 298-300: one backend.update per entity
\* to be updated; after the last one the request goes on to create() when
\* there are new entities, and ends with 204 when there are none
putUpdate(p) ==
    /\ pc[p] = "put_update"
    /\ LET entity == Head(local[p].todo)
           identity == get_identity(entity)
       IN  /\ collection' = UpdateOne(collection, identity, PrepareEntity(entity))
           /\ created' = [i \in DOMAIN created \ {identity} |-> created[i]]
           /\ IF Tail(local[p].todo) # <<>>
              THEN /\ local' = [local EXCEPT ![p].todo = Tail(@)]
                   /\ UNCHANGED <<pc, result>>
              ELSE IF local[p].batch # <<>>
              THEN /\ local' = [local EXCEPT ![p].todo = <<>>]
                   /\ pc' = [pc EXCEPT ![p] = "insert"]
                   /\ UNCHANGED result
              ELSE /\ result' = [result EXCEPT ![p] =
                          Result("put", "ok", BatchIds(local[p].given), {}, local[p].given)]
                   /\ pc' = [pc EXCEPT ![p] = "idle"]
                   /\ local' = [local EXCEPT ![p] = IdleLocal]
    /\ UNCHANGED <<indices, nextId, started, procs>>
    /\ UNCHANGED uploadVars
    /\ UNCHANGED callVars
    /\ UNCHANGED lifeVars

\* a check that finds nothing missing; used only to compare with NonExisting
NonExistingNone(entity_ids, existing_entity_ids) == {}

\* patch_entities, line 341: set(entity_ids) - existing_entity_ids
NonExisting(entity_ids, existing_entity_ids) == entity_ids \ existing_entity_ids

\* patch_entities, lines 319-351: parse the dicts, search for their
\* identities, and raise EntityNotFound when one of them is not stored
patchCall(p) ==
    /\ started /\ pc[p] = "idle"
    /\ \E entities \in Batches :
        LET entity_ids == BatchIds(entities)
            existing_entity_ids == Existing(collection, entity_ids)
            non_existing_entity_ids == NonExisting(entity_ids, existing_entity_ids)
        IN  IF \E identity \in entity_ids : ~ValidIdentity(identity)
            THEN /\ result' = [result EXCEPT ![p] =
                        Result("patch", "InvalidEntityError", entity_ids, {}, entities)]
                 /\ UNCHANGED <<pc, local>>
            ELSE IF non_existing_entity_ids # {}
            THEN /\ result' = [result EXCEPT ![p] =
                        Result("patch", "EntityNotFound", non_existing_entity_ids, {}, entities)]
                 /\ UNCHANGED <<pc, local>>
            ELSE /\ local' = [local EXCEPT ![p] =
                        [given |-> entities, batch |-> <<>>, k |-> 0, ids |-> {},
                         pre |-> collection, todo |-> entities]]
                 /\ pc' = [pc EXCEPT ![p] = "patch_update"]
                 /\ UNCHANGED result
    /\ UNCHANGED <<collection, indices, nextId, started, procs, created>>
    /\ UNCHANGED uploadVars
    /\ UNCHANGED callVars
    /\ UNCHANGED lifeVars

\* patch_entities, lines 353-372: one backend.update per entity, in the order
\* of the request; update() validates the dict before it writes
patchUpdate(p) ==
    /\ pc[p] = "patch_update"
    /\ LET entity == Head(local[p].todo)
           identity == get_identity(entity)
       IN  IF ~DSValid(entity)
           THEN /\ result' = [result EXCEPT ![p] =
                       Result("patch", "ValidationError", {identity}, {}, local[p].given)]
                /\ pc' = [pc EXCEPT ![p] = "idle"]
                /\ local' = [local EXCEPT ![p] = IdleLocal]
                /\ UNCHANGED <<collection, created>>
           ELSE /\ collection' = UpdateOne(collection, identity, PrepareEntity(entity))
                /\ created' = [i \in DOMAIN created \ {identity} |-> created[i]]
                /\ IF Tail(local[p].todo) # <<>>
                   THEN /\ local' = [local EXCEPT ![p].todo = Tail(@)]
                        /\ UNCHANGED <<pc, result>>
                   ELSE /\ result' = [result EXCEPT ![p] =
                               Result("patch", "ok", BatchIds(local[p].given), {}, local[p].given)]
                        /\ pc' = [pc EXCEPT ![p] = "idle"]
                        /\ local' = [local EXCEPT ![p] = IdleLocal]
    /\ UNCHANGED <<indices, nextId, started, procs>>
    /\ UNCHANGED uploadVars
    /\ UNCHANGED callVars
    /\ UNCHANGED lifeVars

\* PATCH /entities requests, one after the other, on an initialized backend
\* that holds nothing, the entity A, or the entities A and B, as create()
\* stored them
StoredB == "identity" :> IdB @@ "properties" :> PropsPlain

InitRoutes ==
    /\ \/ collection = {} /\ nextId = 1 /\ created = <<>>
       \/ /\ collection = {PrepareEntity(StoredA) @@ ("_id" :> 1)}
          /\ nextId = 2
          /\ created = (IdA :> StoredA)
       \/ /\ collection = {PrepareEntity(StoredA) @@ ("_id" :> 1),
                           PrepareEntity(StoredB) @@ ("_id" :> 2)}
          /\ nextId = 3
          /\ created = (IdA :> StoredA) @@ (IdB :> StoredB)
    /\ indices = ("_id_" :> IdIndex) @@ ("IDENTITY" :> IdentityIndex)
    /\ started = TRUE
    /\ procs = {1}
    /\ pc = [p \in procs |-> "idle"]
    /\ local = [p \in procs |-> IdleLocal]
    /\ result = [p \in procs |-> NoResult]
    /\ NoUpload
    /\ NoCall
    /\ AllOpen

NextRoutes ==
    \/ \E p \in procs : patchCall(p)
    \/ \E p \in procs : patchUpdate(p)

SpecRoutes == InitRoutes /\ [][NextRoutes]_vars

\* membership tests among reads, updates and deletes on such a backend
NextContains ==
    \/ \E p \in procs : contains(p)
    \/ \E p \in procs : read(p)
    \/ \E p \in procs : update(p)
    \/ \E p \in procs : delete(p)

SpecContains == InitRoutes /\ [][NextContains]_vars

\* two PUT /entities requests, one each of two workers, on an initialized
\* backend with an empty collection
firstPutCall(p) == result[p].op = "none" /\ putCall(p)

NextPutRace ==
    \/ \E p \in procs : firstPutCall(p)
    \/ \E p \in procs : putUpdate(p)
    \/ \E p \in procs : insertStep(p)
    \/ \E p \in procs : createExists(p)
    \/ \E p \in procs : createReturn(p)

SpecPutRace == InitRace /\ [][NextPutRace]_vars

(***************************************************************************)
(* The life of a backend instance: close() and the finalizer.              *)
(***************************************************************************)
MaxCloses == 3

\* a close that never raises, whatever the state of the instance; used only to
\* compare with Backend.close
BaseCloseQuiet(is_closed) == [raised |-> "none", is_closed |-> TRUE]

\* Backend.close of both packages: raise BackendError("Backend is already
\* closed") on a closed instance, else set _is_closed
BaseClose(is_closed) ==
    IF is_closed
    THEN [raised |-> "BackendError", is_closed |-> is_closed]
    ELSE [raised |-> "none", is_closed |-> TRUE]

\* close() as the class of the instance defines it: the entities_service
\* MongoDBBackend returns at once on the mongomock driver, every other
\* instance runs Backend.close
CloseOf(kind, is_closed) ==
    IF kind = "mongomock"
    THEN [raised |-> "none", is_closed |-> is_closed]
    ELSE BaseClose(is_closed)

\* backend.close()
close(b) ==
    /\ instances[b].alive
    /\ instances[b].closes < MaxCloses
    /\ instances' = [instances EXCEPT
           ![b].is_closed = CloseOf(b, instances[b].is_closed).is_closed,
           ![b].raised = CloseOf(b, instances[b].is_closed).raised,
           ![b].closes = @ + 1]
    /\ UNCHANGED <<backendVars, uploadVars, callVars>>

\* Backend.__del__: close the instance unless it is closed already; the
\* instance is gone afterwards
del(b) ==
    /\ instances[b].alive
    /\ instances' = [instances EXCEPT
           ![b].alive = FALSE,
           ![b].is_closed = IF instances[b].is_closed THEN TRUE
                            ELSE CloseOf(b, FALSE).is_closed,
           ![b].raised = IF instances[b].is_closed THEN @ ELSE CloseOf(b, FALSE).raised,
           ![b].closes = IF instances[b].is_closed THEN @ ELSE @ + 1]
    /\ UNCHANGED <<backendVars, uploadVars, callVars>>

NextClose ==
    \/ \E b \in BackendKinds : close(b)
    \/ \E b \in BackendKinds : del(b)

SpecClose == Init /\ [][NextClose]_vars

\* the canonical identity of a stored document
Canonical(d) == IF "identity" \in DOMAIN d THEN d["identity"] ELSE get_uri(d)

\* C1: in every state reachable by create, update and delete calls on an
\* initialized backend no two stored descriptors have the same canonical
\* identity namespace/version/name, whether a descriptor is stored with its
\* identity string or with separate namespace, version and name.
C1_IdentityUnique ==
    \A d1, d2 \in collection : Canonical(d1) = Canonical(d2) => d1 = d2

\* handler p finishes a create() call in this step
CreateEnds(p) == pc[p] \in {"duplicate", "inserted"} /\ pc'[p] = "idle"

\* handler p ran a whole read, update or delete call, or a create() call that
\* failed validation, in this step
CallOf(p, op) == pc[p] = "idle" /\ pc'[p] = "idle" /\ result'[p].op = op

\* C2: after create([x]) has succeeded, a second create([x]) fails with
\* EntityExists (AlreadyExists) and the number of stored descriptors is the same
\* after the failed call as before it.
C2_SecondCreateFails ==
    [][\A p \in procs :
        (/\ CreateEnds(p)
         /\ Len(local[p].batch) = 1
         /\ get_identity(local[p].batch[1]) \in DOMAIN created)
        => (/\ result'[p].status = "EntityExists"
            /\ Cardinality(collection') = Cardinality(local[p].pre))]_vars

C2_Witness ==
    /\ result[1].op = "create" /\ result[1].status = "EntityExists"
    /\ Len(result[1].given) = 1
    /\ result[1].given[1]["identity"] \in DOMAIN created
    /\ Cardinality(collection) = 1

\* C3: create() with a batch of which at least one identity is already stored
\* fails with EntityExists, the error names exactly the identities stored before
\* the call, and the store equals its state before the call, whatever the
\* position of the colliding descriptor in the batch.
C3_BatchCollisionAtomic ==
    [][\A p \in procs :
        (/\ CreateEnds(p)
         /\ BatchIds(local[p].batch) \cap StoredIds(local[p].pre) # {})
        => (/\ result'[p].status = "EntityExists"
            /\ result'[p].ids = BatchIds(local[p].batch) \cap StoredIds(local[p].pre)
            /\ collection' = local[p].pre)]_vars

\* C4: two create() calls for the same not-yet-stored identity that run
\* concurrently: in every interleaving exactly one succeeds, exactly one fails
\* with EntityExists, and exactly one descriptor with that identity is stored.
BothCreated(x) ==
    \A p \in procs :
        /\ pc[p] = "idle"
        /\ result[p].op = "create"
        /\ result[p].status # "ValidationError"
        /\ Len(result[p].given) = 1
        /\ result[p].given[1]["identity"] = x

C4_ExactlyOneCreateWins ==
    \A x \in GoodIdentities :
        BothCreated(x) =>
            /\ Cardinality({p \in procs : result[p].status = "ok"}) = 1
            /\ Cardinality({p \in procs : result[p].status = "EntityExists"}) = 1
            /\ \A p \in procs : result[p].status = "EntityExists" => result[p].ids = {x}
            /\ Cardinality(Matching(collection, "identity", {x})) = 1

C4_Witness == BothCreated(IdA) /\ result[2].status = "ok" /\ result[1].status = "EntityExists"

\* C5: update(identity, entity) on a stored identity is a full replace: the
\* stored document for that identity equals the normalized form of entity and
\* no field of the previously stored document that is absent from entity remains.
C5_UpdateIsFullReplace ==
    [][\A p \in procs :
        (/\ CallOf(p, "update")
         /\ result'[p].status = "ok"
         /\ result'[p].ids \subseteq StoredIds(collection))
        => \A d \in Matching(collection', "identity", result'[p].ids) :
               Project(d) = PrepareEntity(result'[p].given[1])]_vars

\* C6: update(identity, entity) for a well-formed identity that is not stored
\* raises no error and leaves the store unchanged.
C6_UpdateOfAbsentIsNoOp ==
    [][\A p \in procs :
        (/\ CallOf(p, "update")
         /\ DSValid(result'[p].given[1])
         /\ \A i \in result'[p].ids : ValidIdentity(i) /\ i \notin StoredIds(collection))
        => (result'[p].status = "ok" /\ collection' = collection)]_vars

C6_Witness ==
    /\ result[1].op = "update" /\ result[1].status = "ok" /\ result[1].ret = {}
    /\ result[1].ids = {IdB}
    /\ StoredIds(collection) = {IdA}

\* C7: delete(identities) with at least one identity that fails the identity
\* grammar fails with InvalidEntityError (InvalidIdentity) and deletes nothing.
C7_DeleteValidatesFirst ==
    [][\A p \in procs :
        (/\ CallOf(p, "delete")
         /\ \E i \in result'[p].ids : ~ValidIdentity(i))
        => (result'[p].status = "InvalidEntityError" /\ collection' = collection)]_vars

C7_Witness ==
    /\ result[1].op = "delete" /\ result[1].status = "InvalidEntityError"
    /\ result[1].ids = {IdA, BadId}
    /\ IdA \in StoredIds(collection)

\* the input, with the reference keys of its properties rewritten
RefRewritten(e) ==
    [f \in DOMAIN e |->
        IF f = "properties"
        THEN [n \in DOMAIN e[f] |->
                 [k \in (DOMAIN e[f][n] \ {"$ref"}) \cup
                        (IF "$ref" \in DOMAIN e[f][n] THEN {"ref"} ELSE {}) |->
                     IF k = "ref" /\ "$ref" \in DOMAIN e[f][n]
                     THEN e[f][n]["$ref"] ELSE e[f][n][k]]]
        ELSE e[f]]

\* C8: after create([d]) succeeds for a descriptor d with identity i, read(i)
\* returns the stored form of d, equal to the input apart from the rewriting of
\* reference keys, until an update or delete of i.
C8_CreateThenRead ==
    \A i \in DOMAIN created :
        {Project(d) : d \in FindOne(Matching(collection, "identity", {i}))}
            = {RefRewritten(created[i])}

C8_ReadReturnsIt ==
    [][\A p \in procs :
        (CallOf(p, "read") /\ result'[p].ids \subseteq DOMAIN created)
        => \A i \in result'[p].ids : result'[p].ret = {RefRewritten(created[i])}]_vars

C8_Witness ==
    /\ result[1].op = "read" /\ result[1].status = "ok"
    /\ result[1].ids = {IdA} /\ IdA \in DOMAIN created
    /\ "$ref" \in DOMAIN created[IdA]["properties"]["p"]
    /\ result[1].ret # {}

SeqSet(q) == {q[i] : i \in DOMAIN q}
SuccessFiles == {successes[i].file : i \in DOMAIN successes}
CreateRequests == {i \in DOMAIN requests : requests[i].kind = "create"}
\* the upload command has gone through all its files and ended
RunEnded == upc = "done" /\ upos > Len(files)

\* C9: an upload run without fail-fast is not stopped by a failing candidate,
\* and when it ends the single batch create request it sent holds exactly the
\* candidates that validated and were neither skipped nor failed, also when
\* other candidates of the run failed.
C9_BatchHoldsAllValid ==
    (~fail_fast /\ RunEnded /\ successes # <<>>) =>
        /\ Cardinality(CreateRequests) = 1
        /\ \A i \in CreateRequests :
              requests[i].body = [k \in 1..Len(successes) |-> successes[k].entity]

\* the dotted-integer grammar: one to three runs of digits separated by dots
DottedInteger(v) ==
    /\ Len(v) > 0
    /\ \A i \in 1..Len(v) : v[i] \in Digits \cup {"."}
    /\ v[1] # "." /\ v[Len(v)] # "."
    /\ \A i \in 1..(Len(v) - 1) : ~(v[i] = "." /\ v[i + 1] = ".")
    /\ Cardinality(Positions(v, ".")) <= 2

\* C10: a version typed at the upload prompt is accepted only if it differs
\* from the existing version and is a dotted integer of 1 to 3 components;
\* otherwise an explicit error is printed for the candidate ("same as the
\* existing version" for an equal one), the candidate is failed (the command
\* exits at once under fail-fast), its descriptor is not among those to be
\* submitted and the run sends no create request.
C10_CustomVersionChecked ==
    \A k \in DOMAIN entered :
        LET r == entered[k]
            acceptable == r.new_version # r.existing /\ DottedInteger(r.new_version)
        IN  /\ r.file \in SuccessFiles => acceptable
            /\ ~acceptable =>
                  /\ Message(r.file,
                             IF r.new_version = r.existing
                             THEN "is the same as the existing version"
                             ELSE "is not a valid SOFT version") \in SeqSet(messages)
                  /\ r.file \notin SuccessFiles
                  /\ IF fail_fast THEN upc = "done" /\ exitCode = "1"
                     ELSE r.file \in SeqSet(failed)
                  /\ CreateRequests = {}

\* a run without fail-fast has ended in which the existing version was typed
\* for one file and another file was found valid and new
C10_Witness ==
    /\ ~fail_fast
    /\ RunEnded
    /\ successes # <<>>
    /\ \E k \in DOMAIN entered :
          /\ entered[k].new_version = entered[k].existing
          /\ entered[k].file \in SeqSet(failed)

\* the namespace and name a validated entity had before a version change
NamespaceOf(entity) ==
    IF "namespace" \in DOMAIN entity THEN entity["namespace"]
    ELSE UriRegexMatch(entity["uri"]).namespace
NameOf(entity) ==
    IF "name" \in DOMAIN entity THEN entity["name"] ELSE UriRegexMatch(entity["uri"]).name

\* C11: every candidate to be submitted after a version change carries the new
\* version in its uri and, if it has the parts form, in its version field,
\* with namespace and name unchanged, so that uri = namespace/version/name
\* whenever both forms are present; the create request holds these descriptors.
C11_VersionChangeConsistent ==
    /\ \A k \in DOMAIN entered : \A i \in DOMAIN successes :
          successes[i].file = entered[k].file =>
              LET e == successes[i].entity
                  orig == ToModel(files[entered[k].file].entity)
                  v == entered[k].new_version
              IN  /\ "uri" \in DOMAIN e
                  /\ e["uri"] = BuildUri(NamespaceOf(orig), v, NameOf(orig))
                  /\ DOMAIN e \cap IdentityParts = DOMAIN orig \cap IdentityParts
                  /\ "version" \in DOMAIN e =>
                        /\ e["version"] = v
                        /\ e["namespace"] = orig["namespace"]
                        /\ e["name"] = orig["name"]
                        /\ e["uri"] = BuildUri(e["namespace"], e["version"], e["name"])
    /\ \A r \in CreateRequests :
          requests[r].body = [k \in 1..Len(successes) |-> successes[k].entity]

\* a create request was sent that holds an entity given by uri and by parts,
\* for which a new version was typed
C11_Witness ==
    /\ CreateRequests # {}
    /\ \E k \in DOMAIN entered :
          /\ entered[k].file \in SuccessFiles
          /\ IdentityParts \cup {"uri"} \subseteq DOMAIN files[entered[k].file].entity

\* C12: a candidate whose remote copy has the same content, or for which the
\* operator declines a new version, ends in skipped, and its descriptor is in
\* no create request of the run.
C12_SameOrDeclinedIsSkipped ==
    \A k \in DOMAIN answers :
        (\/ answers[k].response = "same"
         \/ answers[k].response = "differs" /\ ~answers[k].update_version) =>
            /\ answers[k].file \in SeqSet(skipped)
            /\ answers[k].file \notin SuccessFiles
            /\ answers[k].file \notin SeqSet(failed)
            /\ \A r \in CreateRequests :
                  /\ requests[r].body = [i \in 1..Len(successes) |-> successes[i].entity]
                  /\ UploadEntity(ToModel(files[answers[k].file].entity))
                        \notin SeqSet(requests[r].body)

\* a run sent a create request although the operator declined a new version
\* for one of its files
C12_Witness ==
    /\ CreateRequests # {}
    /\ \E k \in DOMAIN answers :
          /\ answers[k].response = "differs"
          /\ ~answers[k].update_version
          /\ answers[k].file \in SeqSet(skipped)

ValidationErrors ==
    {"is not a valid SOFT entity", "is the same as the existing version",
     "is not a valid SOFT version"}

\* C13: with fail-fast, the first candidate that fails schema validation or
\* the check of its custom version ends the run with a non-zero exit code: no
\* later candidate is processed and no create request is sent.
C13_FailFastAborts ==
    fail_fast =>
        \A m \in DOMAIN messages :
            messages[m].error \in ValidationErrors =>
                /\ upc = "done"
                /\ exitCode = "1"
                /\ upos = messages[m].file
                /\ failed = <<>>
                /\ CreateRequests = {}
                /\ \A k \in DOMAIN answers : answers[k].file <= messages[m].file
                /\ \A f \in SuccessFiles \cup SeqSet(skipped) : f < messages[m].file

\* a fail-fast run ended at a failing first file with another file left
C13_Witness ==
    /\ fail_fast
    /\ Len(files) > 1
    /\ upc = "done"
    /\ \E m \in DOMAIN messages :
          messages[m].error \in ValidationErrors /\ messages[m].file = 1

\* C14: the suggested next version of a 1-component version v is v.1, of a.b
\* is a.b.1 and of a.b.c is a.b.(c+1), the other components are kept, and a
\* version that is not 1 to 3 dot-separated integers gives an error.
C14_NextVersionRule ==
    (called = "get_updated_version" /\ out.done) =>
        LET parts == Split(arg, ".")
            next == Split(out.value, ".")
        IN  IF DottedInteger(arg)
            THEN /\ out.ok
                 /\ Len(parts) \in {1, 2} => out.value = arg \o <<".", "1">>
                 /\ Len(parts) = 3 =>
                       /\ Len(next) = 3
                       /\ next[1] = parts[1]
                       /\ next[2] = parts[2]
                       /\ IsDigits(next[3])
                       /\ ToInt(next[3]) = ToInt(parts[3]) + 1
            ELSE ~out.ok

\* the next version of 1.1.9 was suggested
C14_Witness ==
    /\ called = "get_updated_version"
    /\ out.done
    /\ arg = <<"1", ".", "1", ".", "9">>
    /\ out.value = <<"1", ".", "1", ".", "1", "0">>

\* C15: a payload valid as SOFT7Entity (map of properties) always resolves to
\* SOFT7Entity, which is tried first; SOFT5Entity (list of properties) is
\* returned only after the validation as SOFT7Entity has failed.
C15_VariantPriority ==
    (called = "soft_entity" /\ out.done) =>
        /\ Soft7Valid(arg) => out.variant = "SOFT7Entity" /\ out.errors = <<>>
        /\ out.variant = "SOFT5Entity" => ~Soft7Valid(arg) /\ out.errors = <<"SOFT7Entity">>

\* a payload resolved to SOFT5Entity
C15_Witness ==
    /\ called = "soft_entity"
    /\ out.done
    /\ out.ok
    /\ out.variant = "SOFT5Entity"
    /\ Soft5Valid(arg)

\* C16: for a payload that fails both variants the resolver returns one
\* error per variant tried, that of SOFT7Entity first and that of SOFT5Entity
\* second, never the error of the first attempt alone.
C16_ErrorsOfBothVariants ==
    (called = "soft_entity" /\ out.done /\ ~Soft7Valid(arg) /\ ~Soft5Valid(arg)) =>
        /\ ~out.ok
        /\ out.errors = <<"SOFT7Entity", "SOFT5Entity">>

\* a payload with a list of properties and a uri that differs from its parts
\* was refused
C16_Witness ==
    /\ called = "soft_entity"
    /\ out.done
    /\ ~out.ok
    /\ "properties" \in DOMAIN arg
    /\ arg["properties"].kind = "list"
    /\ Len(out.errors) = 2

\* C17: a payload validates only if name, version and namespace are all given
\* or all left out, the parts or the uri are given, and a uri given with the
\* parts equals namespace/version/name; a uri that differs is refused with an
\* error that shows the two strings.
C17_IdentityFieldsChecked ==
    (called = "soft_entity" /\ out.done) =>
        LET parts == IdentityParts \cap DOMAIN arg
            built == BuildUri(arg["namespace"], arg["version"], arg["name"])
        IN  /\ out.ok =>
                  /\ parts = {} \/ parts = IdentityParts
                  /\ parts = IdentityParts \/ "uri" \in DOMAIN arg
                  /\ (parts = IdentityParts /\ "uri" \in DOMAIN arg) => arg["uri"] = built
            /\ (parts = IdentityParts /\ "uri" \in DOMAIN arg /\ arg["uri"] # built) =>
                  /\ ~out.ok
                  /\ out.cross = "uri is not consistent"
                  /\ out.diff = <<arg["uri"], built>>

\* a payload whose properties are fine was refused for a uri that differs
\* from its parts
C17_Witness ==
    /\ called = "soft_entity"
    /\ out.done
    /\ ~out.ok
    /\ out.cross = "uri is not consistent"
    /\ "properties" \in DOMAIN arg
    /\ arg["properties"] = MapProps

\* C18: for a namespace that is an http(s) URL prefix, a version of 1 to 3
\* dot-separated integers and a name without "/", "#" and "?", matching
\* namespace/version/name against the identity grammar succeeds and gives
\* back this namespace, version and name.
C18_BuildParseRoundTrip ==
    (/\ called = "URI_REGEX.match"
     /\ out.done
     /\ IsPrefix(Http, arg.namespace) \/ IsPrefix(Https, arg.namespace)
     /\ DottedInteger(arg.version)
     /\ \A i \in 1..Len(arg.name) : arg.name[i] \notin {"/", "#", "?"}) =>
        /\ out.matched
        /\ out.namespace = arg.namespace
        /\ out.version = arg.version
        /\ out.name = arg.name

\* the stored document declares a property, or a dimension, of one of the names
Declares(doc, field, names) ==
    /\ field \in DOMAIN doc
    /\ \E i \in 1..Len(names) : names[i] \in DOMAIN doc[field]

\* C19: search with filters and no raw query returns exactly the stored
\* descriptors that declare a property named in by_properties, or declare a
\* dimension named in by_dimensions, or have an identity in by_identities;
\* without any filter it returns every stored descriptor.
C19_SearchIsInclusiveOr ==
    [][\A p \in procs :
        (CallOf(p, "search") /\ result'[p].status = "ok") =>
            LET by_properties == result'[p].given[1]
                by_dimensions == result'[p].given[2]
                by_identities == result'[p].ids
                unfiltered == by_properties = <<>> /\ by_dimensions = <<>> /\ by_identities = {}
            IN  result'[p].ret =
                    {Project(d) : d \in
                        {x \in collection :
                            \/ unfiltered
                            \/ Declares(x, "properties", by_properties)
                            \/ Declares(x, "dimensions", by_dimensions)
                            \/ "identity" \in DOMAIN x /\ x["identity"] \in by_identities}}]_vars

\* handler p's update() was applied to a stored document
Applied(r) == r.op = "update" /\ r.status = "ok" /\ r.ret # {}

\* C20: when two update calls for the same stored identity overlap, the
\* stored document afterwards is the document written by the update that the
\* store applied last, with nothing left from the other update.
C20_LastWriteWins ==
    [][\A p, q \in procs :
        (/\ p # q
         /\ CallOf(p, "update")
         /\ Applied(result'[p])
         /\ Applied(result[q])
         /\ result[q].ids = result'[p].ids) =>
            {Project(d) : d \in collection'} = {PrepareEntity(result'[p].given[1])}]_vars

\* C21 as stated: on every backend instance the first close() succeeds and
\* marks the instance closed, every later close() fails with the
\* already-closed error, and a closed instance never reports open again.
C21_CloseOnce ==
    \A b \in BackendKinds :
        /\ instances[b].closes >= 1 => instances[b].is_closed
        /\ instances[b].closes = 1 => instances[b].raised = "none"
        /\ instances[b].closes >= 2 => instances[b].raised = "BackendError"

\* what every instance shows after its close() calls, the mongomock driver
\* apart
CloseOutcomes ==
    \A b \in BackendKinds :
        IF b = "mongomock"
        THEN ~instances[b].is_closed /\ instances[b].raised = "none"
        ELSE /\ instances[b].closes = 0 => ~instances[b].is_closed
             /\ instances[b].closes >= 1 => instances[b].is_closed
             /\ instances[b].closes = 1 => instances[b].raised = "none"
             /\ instances[b].closes >= 2 => instances[b].raised = "BackendError"

\* C21: on every backend instance except an entities_service MongoDBBackend
\* on the mongomock driver the first close() succeeds and marks the instance
\* closed, every later close() fails with the already-closed error, and no
\* instance that is closed reports open again; on the mongomock driver
\* close() never fails and never marks the instance closed.
C21_CloseOnceUnlessMock ==
    /\ []CloseOutcomes
    /\ [][\A b \in BackendKinds : instances[b].is_closed => instances'[b].is_closed]_vars

C21_Witness ==
    /\ instances["dataspaces"].closes = 3
    /\ instances["pymongo"].closes = 2
    /\ instances["mongomock"].closes = 2

\* C22: initialize() creates the IDENTITY index only when the collection has
\* no index of that name; an index of that name, whatever its uniqueness
\* flag and key, is left as it is; and once initialize() has run nothing
\* changes the index set any more, so any number of calls leaves the index
\* set of one call.
C22_InitializeOnlyCreates ==
    [][/\ (~started /\ started' /\ "IDENTITY" \notin DOMAIN indices)
              => indices' = indices @@ ("IDENTITY" :> [unique |-> TRUE, key |-> <<"identity">>])
       /\ "IDENTITY" \in DOMAIN indices => indices' = indices
       /\ started => indices' = indices
       /\ started' => "IDENTITY" \in DOMAIN indices']_vars

C22_Witness ==
    /\ started
    /\ indices["IDENTITY"] \in Misconfigured
    /\ collection /= {}

\* the item of a contains call, and the identity it stands for
ItemKind(r) == r.given[1]
ItemOf(r) == r.given[2]
WellFormed(r) ==
    \/ ItemKind(r) = "str" /\ UriRegexMatch(ItemOf(r)).matched
    \/ /\ ItemKind(r) = "dict"
       /\ {"identity", "properties"} \subseteq DOMAIN ItemOf(r)
       /\ UriRegexMatch(ItemOf(r)["identity"]).matched
IdentityOfItem(r) == IF ItemKind(r) = "str" THEN ItemOf(r) ELSE ItemOf(r)["identity"]

\* C23 as stated: contains(x) is true exactly when a descriptor of x's
\* identity is stored, for x an identity string or a descriptor; every
\* other value, and a malformed descriptor map, gives false without an
\* error; no call changes the store.
C23_ContainsNeverRaises ==
    [][\A p \in procs : CallOf(p, "contains") =>
        /\ collection' = collection
        /\ result'[p].status = "ok"
        /\ result'[p].ret =
               {WellFormed(result'[p])
                /\ IdentityOfItem(result'[p]) \in StoredIds(collection)}]_vars

\* C23: contains(x) is true exactly when a descriptor of x's identity is
\* stored, for x a well-formed identity string or descriptor; a value that
\* is neither a string nor a map, and a malformed descriptor map, gives false
\* without an error; a string that is not a well-formed identity raises the
\* invalid-identity error of read; no call changes the store.
C23_ContainsFollowsRead ==
    [][\A p \in procs : CallOf(p, "contains") =>
        /\ collection' = collection
        /\ IF ItemKind(result'[p]) = "str" /\ ~WellFormed(result'[p])
           THEN result'[p].status = "InvalidEntityError"
           ELSE /\ result'[p].status = "ok"
                /\ result'[p].ret =
                       {WellFormed(result'[p])
                        /\ IdentityOfItem(result'[p]) \in StoredIds(collection)}]_vars

C23_Witness ==
    /\ result[1].op = "contains"
    /\ result[1].given[1] = "dict"
    /\ result[1].ret = {TRUE}

\* C24: a create ends with EntityExists only after the store refused a
\* document for a duplicate key (error code 11000); when insert_many fails
\* and no error of the failure has that code the create route ends with
\* WriteError (502), never with EntityExists.
C24_ExistsOnlyForDuplicateKey ==
    [][\A p \in procs :
        /\ (pc[p] # "idle" /\ pc'[p] = "idle" /\ result'[p].status # "ok")
               => /\ (result'[p].status = "EntityExists") <=> (pc[p] = "duplicate")
                  /\ (pc[p] = "insert")
                         => (11000 \notin result'[p].ret /\ result'[p].status = "WriteError")
        /\ (pc[p] = "insert" /\ pc'[p] = "duplicate")
               => (\E d \in collection :
                       d["identity"] = local[p].batch[local[p].k]["identity"])]_vars

C24_Witness ==
    /\ result[1].op = "create"
    /\ result[1].status = "WriteError"
    /\ result[1].ret = {121}
    /\ collection # {}

IdentityOfDoc(d) ==
    IF "identity" \in DOMAIN d THEN d["identity"]
    ELSE IF "uri" \in DOMAIN d THEN d["uri"]
    ELSE BuildUri(d["namespace"], d["version"], d["name"])

\* the fields of entity are those of some document of coll
Holds(coll, entity) ==
    \E d \in coll : \A f \in DOMAIN entity : f \in DOMAIN d /\ d[f] = entity[f]

\* C26: read(i) returns the stored descriptor of identity i, and update(i, e)
\* writes e to it, whether the descriptor is stored with an identity or uri
\* field equal to i or with namespace, version and name fields that make i.
C26_BothFormsReachable ==
    [][\A p \in procs :
        /\ (CallOf(p, "read") /\ result'[p].status = "ok")
               => (\A d \in collection :
                       IdentityOfDoc(d) \in result'[p].ids => result'[p].ret # {})
        /\ (CallOf(p, "update") /\ result'[p].status = "ok")
               => (\A d \in collection :
                       IdentityOfDoc(d) \in result'[p].ids
                           => Holds(collection', PrepareEntity(result'[p].given[1])))]_vars

\* the same for the entities_service backend, whose query is the $or of both
\* forms
LegacyBothFormsReachable ==
    [][\A p \in procs :
        /\ (result'[p] # result[p] /\ result'[p].op = "read" /\ result'[p].status = "ok")
               => (\A d \in collection :
                       IdentityOfDoc(d) \in result'[p].ids => result'[p].ret # {})
        /\ (result'[p] # result[p] /\ result'[p].op = "update" /\ result'[p].status = "ok")
               => (\A d \in collection :
                       IdentityOfDoc(d) \in result'[p].ids
                           => Holds(collection', LegacyPrepare(result'[p].given[1])))]_vars

\* both requests were PUT /entities of one entity of identity x and are over
BothPut(x) ==
    \A p \in procs :
        /\ pc[p] = "idle"
        /\ result[p].op \in {"put", "create"}
        /\ result[p].status # "RequestValidationError"
        /\ Len(result[p].given) = 1
        /\ result[p].given[1]["identity"] = x

\* C27: when two concurrent PUT /entities requests for the same identity,
\* which is not stored when they start, are over, both have succeeded, none
\* has failed with EntityExists, and exactly one descriptor of that identity
\* is stored.
C27_ConcurrentPutBothSucceed ==
    \A x \in GoodIdentities :
        BothPut(x) =>
            /\ \A p \in procs : result[p].status = "ok"
            /\ Cardinality(Matching(collection, "identity", {x})) = 1

\* a PATCH /entities request of p makes its search in this step
PatchSearches(p) ==
    /\ pc[p] = "idle"
    /\ \/ pc'[p] = "patch_update"
       \/ result'[p] # result[p] /\ result'[p].op = "patch"

PatchBatch(p) == IF pc'[p] = "patch_update" THEN local'[p].given ELSE result'[p].given

C29_AcceptedVersionParses ==
    /\ \A m \in DOMAIN messages : messages[m].error # "AttributeError"
    /\ \A k \in DOMAIN entered : \A i \in DOMAIN successes :
          successes[i].file = entered[k].file =>
              UriRegexMatch(successes[i].entity["uri"]).matched

\* the per-file loop has run over every file
LoopFinished == upc \in {"finish", "done"} /\ upos > Len(files)

\* C30: when the per-file loop of an upload run has finished, every file is
\* in exactly one of to be uploaded, skipped and failed, once; and a run sends
\* at most one create request, and none when no file is to be uploaded.
C30_OutcomesPartitionFiles ==
    /\ LoopFinished =>
          /\ SuccessFiles \cup SeqSet(skipped) \cup SeqSet(failed) = 1..Len(files)
          /\ SuccessFiles \cap SeqSet(skipped) = {}
          /\ SuccessFiles \cap SeqSet(failed) = {}
          /\ SeqSet(skipped) \cap SeqSet(failed) = {}
          /\ Len(successes) + Len(skipped) + Len(failed) = Len(files)
    /\ Cardinality(CreateRequests) <= 1
    /\ successes = <<>> => CreateRequests = {}

C30_Witness ==
    /\ RunEnded
    /\ Len(files) = 2
    /\ Len(successes) = 1
    /\ Len(skipped) = 1
    /\ Cardinality(CreateRequests) = 1

====
